---------------------------- MODULE Spec2Model ----------------------------
(***************************************************************************)
(* A model of pns-datamine: the portrait compositor                        *)
(* (composite_portraits.py) and the diced-sprite reconstructor             *)
(* (reconstruct_sprites.py).                                               *)
(*                                                                         *)
(* Python strings are sequences of one-character strings, so that the      *)
(* regular expressions, partition, endswith and f-strings of the source    *)
(* are computed on characters.  Python floats that hold pixel offsets are  *)
(* integers.  A dict is a function; where the source depends on a dict's   *)
(* insertion order the order is kept as a sequence of keys beside it.      *)
(*                                                                         *)
(* The module holds one specification per part of the program:             *)
(*   SpecWorld     _world_pos, frame by frame, with its memo table         *)
(*   SpecGroups    derive_groups, one child of "top" at a time             *)
(*   SpecRects     load_sprite_rects, one child at a time                  *)
(*   SpecAddParts  derive_add_parts, one accessory family at a time        *)
(*   Spec          a run of either script over the bundles directory:      *)
(*                 main and process_bundle of the compositor, one body at  *)
(*                 a time, and of the reconstructor, one sprite at a time  *)
(*   SpecFrames    best_eye_frame and best_mouth_frame on a list of tags   *)
(*   SpecSelect    the character argument of main, one file at a time      *)
(*   SpecQuads     reconstruct_sprite, one quad of the mesh at a time      *)
(*   SpecPaths     the path of a sprite image as the reconstructor saves   *)
(*                 it and as the compositor looks for it                   *)
(***************************************************************************)
EXTENDS Integers, Sequences, FiniteSets, TLC

VARIABLES
    transforms,   \* build_transform_tree's dict: pid -> [go_name, parent, children, lp]
    memo,         \* load_sprite_rects' memo dict: pid -> world position
    wpStack,      \* the active _world_pos frames, outermost first (their pid)
    wpVal,        \* the value a returning _world_pos frame hands to its caller
    wpRet,        \* the last value wp(pid) returned to load_sprite_rects
    wpStatus,     \* "idle" | "running" | "RecursionError"
    body_params,  \* process_bundle's body_params: the m_bodyParameters list
    groups,       \* derive_groups' groups: a list of [bodies, eyes, mouths]
    cur_bodies,   \* derive_groups' cur_bodies
    cur_eyes,     \* derive_groups' cur_eyes: eye base -> list of frame tags
    cur_mouths,   \* derive_groups' cur_mouths: mouth base -> list of frame tags
    dgIdx,        \* derive_groups: the index of the next child of "top"
    dgStatus,     \* "idle" | "loop" | "done"
    sprites,      \* the Sprite objects of env.objects: a list of [m_Name, m_Rect]
    sprite_world, \* load_sprite_rects' sprite_world: name -> world position
    sprite_rects, \* load_sprite_rects' rects: name -> (x, y, width, height)
    top_pid,      \* load_sprite_rects' top_pid (0 for None)
    add_pid,      \* load_sprite_rects' add_pid (0 for None)
    lsIdx,        \* load_sprite_rects: the index of the next child
    lsStatus,     \* "idle" | "top" | "add" | "rects" | "done"
    add_parts,    \* derive_add_parts' result / process_bundle's add_parts
    apIdx,        \* derive_add_parts: the index of the next child of "add_parts"
    apStatus,     \* "idle" | "loop" | "done"
    program,      \* the script that runs: "composite_portraits" | "reconstruct_sprites"
    opts,         \* the compositor's options: [rev, extra, blush]
    bundle_files, \* main's bundle_files: the bundle names, sorted
    path_i,       \* main: the index in bundle_files of the bundle in hand
    mainStatus,   \* "start" | "loop" | "bundle" | "done" | "Traceback"
    log,          \* the lines main has written (progress.log, stdout)
    char_code,    \* process_bundle's char_code
    pngs,         \* the PNG files under SPRITES_DIR: path -> [width, height]
    png_cache,    \* _png_cache: path -> image, or NoImage for None
    pbStatus,     \* the compositor's process_bundle: "idle" | "loaded" | "bodies"
    body_index,   \* process_bundle's body_index
    variants,     \* process_bundle's variants (of the last body that got any)
    saved,        \* process_bundle's saved
    portraits,    \* the save() calls of the process_bundle run in progress
    bundle_log,   \* the lines the process_bundle run in progress has logged
    textures,     \* the reconstructor's textures: path_id -> atlas
    rbIdx,        \* the reconstructor's process_bundle: index of the next Sprite
    rbStatus,     \* the reconstructor's process_bundle: "idle" | "sprites"
    rs_saved,     \* the reconstructor's saved
    skipped,      \* the reconstructor's skipped
    out_files,    \* the sprite PNG paths the reconstructor run in progress wrote
    bf_frames,    \* best_eye_frame / best_mouth_frame: the argument frames
    bf_best,      \* what the call returned (the empty string for None)
    bfStatus,     \* "idle" | "eye" | "mouth": the function that was called
    character,    \* opts.character (the empty string for None)
    all_files,    \* main's all_files: a sorted list of [bname, code]
    sel_files,    \* main's bundle_files while the character is looked for
    selIdx,       \* the index in all_files of the next path
    selStatus,    \* "idle" | "loop" | "selected" | "no match"
    pp_bundle,    \* the bundle both scripts are given: [bname, code]
    pp_sprite,    \* the m_Name of a sprite of the bundle
    rs_path,      \* where the reconstructor saved the sprite (<<>>: not yet)
    cp_path,      \* where the compositor's load_png looked for it (<<>>: not yet)
    sprite_data,  \* reconstruct_sprite: [m_Rect, verts, indices] of the sprite
    atlas_img,    \* the size <<tw, th>> of the atlas image
    canvas,       \* the canvas: pixel |-> atlas pixel or Transparent
    quad_i,       \* the number of quads the loop has been through
    last_quad,    \* "none" | "pasted" | "skipped": what the last turn did
    rsStatus      \* "idle" | "start" | "loop" | "returned"

worldVars == <<memo, wpStack, wpVal, wpRet, wpStatus>>
groupVars == <<body_params, groups, cur_bodies, cur_eyes, cur_mouths, dgIdx, dgStatus>>

rectVars == <<sprites, sprite_world, sprite_rects, top_pid, add_pid, lsIdx, lsStatus>>

addVars == <<add_parts, apIdx, apStatus>>

mainVars == <<program, opts, bundle_files, path_i, mainStatus, log>>

pbVars == <<char_code, pngs, png_cache, pbStatus, body_index, variants, saved,
            portraits, bundle_log>>

rbVars == <<textures, rbIdx, rbStatus, rs_saved, skipped, out_files>>

frameVars == <<bf_frames, bf_best, bfStatus>>

selVars == <<character, all_files, sel_files, selIdx, selStatus>>

pathVars == <<pp_bundle, pp_sprite, rs_path, cp_path>>

quadVars == <<sprite_data, atlas_img, canvas, quad_i, last_quad, rsStatus>>

runVars == <<mainVars, pbVars, rbVars, frameVars, selVars, pathVars, quadVars>>

vars == <<transforms, worldVars, groupVars, rectVars, addVars, runVars>>

\* What the actions of one part of the program leave alone.
notWorld == <<groupVars, rectVars, addVars, runVars>>
notGroups == <<worldVars, rectVars, addVars, runVars>>
notRects == <<wpStack, wpVal, wpRet, wpStatus, groupVars, addVars, runVars>>
notAddParts == <<worldVars, groupVars, rectVars, runVars>>

None == "None"
\* No value is being returned / wp has returned nothing yet.
NoValue == <<>>
NoReturn == [pid |-> 0, r |-> <<0, 0>>]

\* The variables of a part of the program that a specification does not run.
WorldIdle ==
    /\ memo = <<>>
    /\ wpStack = <<>>
    /\ wpVal = NoValue
    /\ wpRet = NoReturn
    /\ wpStatus = "idle"

RectsIdle ==
    /\ sprites = <<>>
    /\ sprite_world = <<>>
    /\ sprite_rects = <<>>
    /\ top_pid = 0
    /\ add_pid = 0
    /\ lsIdx = 0
    /\ lsStatus = "idle"

AddPartsIdle ==
    /\ add_parts = <<>>
    /\ apIdx = 0
    /\ apStatus = "idle"

GroupsIdle ==
    /\ body_params = <<>>
    /\ groups = <<>>
    /\ cur_bodies = <<>>
    /\ cur_eyes = <<>>
    /\ cur_mouths = <<>>
    /\ dgIdx = 0
    /\ dgStatus = "idle"

\* No process_bundle of the compositor is running.
PbIdle ==
    /\ char_code = <<>>
    /\ pngs = <<>>
    /\ png_cache = <<>>
    /\ pbStatus = "idle"
    /\ body_index = 0
    /\ variants = <<>>
    /\ saved = 0
    /\ portraits = {}
    /\ bundle_log = <<>>

\* No process_bundle of the reconstructor is running.
RbIdle ==
    /\ textures = <<>>
    /\ rbIdx = 0
    /\ rbStatus = "idle"
    /\ rs_saved = 0
    /\ skipped = 0
    /\ out_files = {}

\* Neither frame function has been called.
FramesIdle ==
    /\ bf_frames = <<>>
    /\ bf_best = <<>>
    /\ bfStatus = "idle"

\* main is not selecting bundles.
SelectIdle ==
    /\ character = <<>>
    /\ all_files = <<>>
    /\ sel_files = <<>>
    /\ selIdx = 0
    /\ selStatus = "idle"

\* No path has been computed.
PathsIdle ==
    /\ pp_bundle = <<>>
    /\ pp_sprite = <<>>
    /\ rs_path = <<>>
    /\ cp_path = <<>>

\* reconstruct_sprite is not being followed.
QuadsIdle ==
    /\ sprite_data = <<>>
    /\ atlas_img = <<>>
    /\ canvas = <<>>
    /\ quad_i = 0
    /\ last_quad = "none"
    /\ rsStatus = "idle"

RunIdle ==
    /\ FramesIdle
    /\ SelectIdle
    /\ PathsIdle
    /\ QuadsIdle
    /\ program = "none"
    /\ opts = [rev |-> FALSE, extra |-> FALSE, blush |-> FALSE]
    /\ bundle_files = <<>>
    /\ path_i = 0
    /\ mainStatus = "idle"
    /\ log = <<>>
    /\ PbIdle
    /\ RbIdle

(***************************************************************************)
(* Bounds of the model.                                                    *)
(***************************************************************************)
MaxPid == 4
MaxDepth == 6

Pids == 1..MaxPid
\* A path id that no Transform record carries.
AbsentPid == MaxPid + 1

\* The local offsets of the records come from one of two tables: the offsets
\* of a chain root->A->B->C (pids 4, 1, 2, 3), or offsets with negative parts.
OffsetTable(k, pid) ==
    IF k = 1
    THEN CASE pid = 1 -> <<1, 0>>
           [] pid = 2 -> <<0, 2>>
           [] pid = 3 -> <<3, 0>>
           [] OTHER   -> <<0, 0>>
    ELSE <<2 * pid - 5, -pid>>

(***************************************************************************)
(* Strings.  A Python str is a sequence of one-character strings.          *)
(***************************************************************************)
Lower == {"a", "b", "c", "d", "e", "f", "g", "h", "i", "j", "k", "l", "m",
          "n", "o", "p", "q", "r", "s", "t", "u", "v", "w", "x", "y", "z"}
Digit == {"0", "1", "2", "3", "4", "5", "6", "7", "8", "9"}
\* \w of the re module, as far as the names of the model go.
Word == Lower \cup Digit \cup {"_"}

\* The display names and sprite names the bundles of the model use.
N_top == <<"t", "o", "p">>
N_add_parts == <<"a", "d", "d", "_", "p", "a", "r", "t", "s">>
N_basecmn == <<"b", "a", "s", "e", "c", "m", "n">>
N_base == <<"b", "a", "s", "e">>
N_b1 == <<"b", "1">>
N_side == <<"s", "i", "d", "e">>
N_cheek == <<"c", "h", "e", "e", "k">>
N_xxx == <<"x", "x", "x">>
N_avi == <<"a", "v", "i">>
N_e_nom_n1 == <<"e", "_", "n", "o", "m", "_", "n", "1">>
N_e_nom_f0 == <<"e", "_", "n", "o", "m", "_", "f", "0">>
N_e_nom_s_n1 == <<"e", "_", "n", "o", "m", "_", "s", "_", "n", "1">>
N_e_sml_f1 == <<"e", "_", "s", "m", "l", "_", "f", "1">>
N_m_nom_0 == <<"m", "_", "n", "o", "m", "_", "0">>
N_m_nom_1 == <<"m", "_", "n", "o", "m", "_", "1">>
N_m_nom_i_2 == <<"m", "_", "n", "o", "m", "_", "i", "_", "2">>
N_m_sml_0 == <<"m", "_", "s", "m", "l", "_", "0">>
N_base_add == <<"b", "a", "s", "e", "_", "a", "d", "d">>
N_base_addrev == <<"b", "a", "s", "e", "_", "a", "d", "d", "r", "e", "v">>
N_base_add1 == <<"b", "a", "s", "e", "_", "a", "d", "d", "1">>
N_base_add13 == <<"b", "a", "s", "e", "_", "a", "d", "d", "1", "3">>
N_base_add3 == <<"b", "a", "s", "e", "_", "a", "d", "d", "3">>
N_base_cheek == <<"b", "a", "s", "e", "_", "c", "h", "e", "e", "k">>
N_b1_add == <<"b", "1", "_", "a", "d", "d">>
N_b1_addrev == <<"b", "1", "_", "a", "d", "d", "r", "e", "v">>
N_junk == <<"j", "u", "n", "k">>

\* s.startswith(pre), s.endswith(suf)
StartsWith(s, pre) ==
    Len(s) >= Len(pre) /\ SubSeq(s, 1, Len(pre)) = pre
EndsWith(s, suf) ==
    Len(s) >= Len(suf) /\ SubSeq(s, Len(s) - Len(suf) + 1, Len(s)) = suf

\* The least element of a non-empty set of integers.
Min(S) == CHOOSE x \in S : \A y \in S : x <= y

\* s.partition("_")[2]: what follows the first "_", or "" without one.
AfterFirstUnderscore(s) ==
    LET us == {i \in 1..Len(s) : s[i] = "_"} IN
    IF us = {} THEN <<>> ELSE SubSeq(s, Min(us) + 1, Len(s))

(***************************************************************************)
(* _world_pos (composite_portraits.py 102-117), one frame step at a time.  *)
(***************************************************************************)
MemoSet(m, pid, r) ==
    [q \in (DOMAIN m) \cup {pid} |-> IF q = pid THEN r ELSE m[q]]

Top(stack) == stack[Len(stack)]
Pop(stack) == SubSeq(stack, 1, Len(stack) - 1)

\* "p == 0 or p not in transforms"
NoResolvableParent(p) == p = 0 \/ p \notin DOMAIN transforms

\* A mutant of AddOffset: the parent's world position is dropped.
AddOffsetNoParent(pw, lp) == lp

\* "r = (px + lx, py + ly)"
AddOffset(pw, lp) == <<pw[1] + lp[1], pw[2] + lp[2]>>

\* A frame returns r: the caller resumes, or wp(pid) has its value.
Return(pid, r, m) ==
    /\ memo' = m
    /\ wpStack' = Pop(wpStack)
    /\ IF Len(wpStack) = 1
       THEN /\ wpVal' = NoValue
            /\ wpRet' = [pid |-> pid, r |-> r]
            /\ wpStatus' = "idle"
       ELSE /\ wpVal' = r
            /\ UNCHANGED <<wpRet, wpStatus>>

\* wp(pid): load_sprite_rects calls _world_pos for a child that is in transforms.
WpCall(pid) ==
    /\ wpStatus = "idle"
    /\ pid \in DOMAIN transforms
    /\ wpStack' = <<pid>>
    /\ wpVal' = NoValue
    /\ wpStatus' = "running"
    /\ UNCHANGED <<transforms, memo, wpRet, notWorld>>

\* Lines 103-113: a frame that has just been entered.
WpEnter ==
    /\ wpStatus = "running"
    /\ wpVal = NoValue
    /\ LET pid == Top(wpStack) IN
       IF pid \in DOMAIN memo
       THEN Return(pid, memo[pid], memo)
       ELSE IF pid \notin DOMAIN transforms
       THEN Return(pid, <<0, 0>>, MemoSet(memo, pid, <<0, 0>>))
       ELSE LET t == transforms[pid] IN
            IF NoResolvableParent(t.parent)
            THEN Return(pid, t.lp, MemoSet(memo, pid, t.lp))
            ELSE /\ Len(wpStack) < MaxDepth
                 /\ wpStack' = Append(wpStack, t.parent)
                 /\ UNCHANGED <<memo, wpVal, wpRet, wpStatus>>
    /\ UNCHANGED <<transforms, notWorld>>

\* Lines 114-117: the recursive call has returned (px, py).
WpResume ==
    /\ wpStatus = "running"
    /\ wpVal # NoValue
    /\ LET pid == Top(wpStack)
           r   == AddOffset(wpVal, transforms[pid].lp)
       IN  Return(pid, r, MemoSet(memo, pid, r))
    /\ UNCHANGED <<transforms, notWorld>>

\* Line 114 with the interpreter's frame limit reached: RecursionError
\* unwinds every frame; no memo entry is written.
WpOverflow ==
    /\ wpStatus = "running"
    /\ wpVal = NoValue
    /\ Len(wpStack) = MaxDepth
    /\ LET pid == Top(wpStack) IN
       /\ pid \notin DOMAIN memo
       /\ pid \in DOMAIN transforms
       /\ ~NoResolvableParent(transforms[pid].parent)
    /\ wpStack' = <<>>
    /\ wpStatus' = "RecursionError"
    /\ UNCHANGED <<transforms, memo, wpVal, wpRet, notWorld>>

\* The Transform records of a bundle, as far as _world_pos reads them: any
\* parent id (0, a record, itself, or an id with no record) and any offset.
WorldTransforms ==
    { [p \in Pids |-> [go_name |-> <<>>, parent |-> par[p], children |-> <<>>,
                       lp |-> OffsetTable(k, p)]] :
      par \in [Pids -> 0..AbsentPid], k \in 1..2 }

InitWorld ==
    /\ transforms \in WorldTransforms
    /\ WorldIdle
    /\ GroupsIdle
    /\ RectsIdle
    /\ AddPartsIdle
    /\ RunIdle

NextWorld ==
    \/ \E pid \in Pids : WpCall(pid)
    \/ WpEnter
    \/ WpResume
    \/ WpOverflow

SpecWorld == InitWorld /\ [][NextWorld]_vars

(***************************************************************************)
(* Claims about _world_pos.                                                *)
(***************************************************************************)
\* The node reached from n by k parent links, or 0 once a node with no
\* resolvable parent has been passed.
RECURSIVE AncestorAt(_, _)
AncestorAt(n, k) ==
    IF k = 0 THEN n
    ELSE LET m == AncestorAt(n, k - 1) IN
         IF m = 0 \/ NoResolvableParent(transforms[m].parent)
         THEN 0
         ELSE transforms[m].parent

\* n and its ancestors, up to the node whose parent is 0 or has no record.
AncestorChain(n) ==
    {AncestorAt(n, k) : k \in 0..Cardinality(DOMAIN transforms)} \ {0}

\* The parent links from n end: n is neither on a cycle nor below one.
Acyclic(n) == AncestorAt(n, Cardinality(DOMAIN transforms)) = 0

RECURSIVE SumOffsets(_)
SumOffsets(S) ==
    IF S = {} THEN <<0, 0>>
    ELSE LET m == CHOOSE x \in S : TRUE
             rest == SumOffsets(S \ {m})
         IN  <<rest[1] + transforms[m].lp[1], rest[2] + transforms[m].lp[2]>>

ChainSum(n) == SumOffsets(AncestorChain(n))

\* The chain root->A->B->C of the specification: pid 4 is the root with
\* offset (0,0), A = 1 with (1,0), B = 2 with (0,2), C = 3 with (3,0).
ExampleChain ==
    /\ transforms[4].parent = 0 /\ transforms[4].lp = <<0, 0>>
    /\ transforms[1].parent = 4 /\ transforms[1].lp = <<1, 0>>
    /\ transforms[2].parent = 1 /\ transforms[2].lp = <<0, 2>>
    /\ transforms[3].parent = 2 /\ transforms[3].lp = <<3, 0>>

\* C1: for a node N whose parent links end, every value _world_pos records
\* or returns for N is the sum of the local offsets of N and its ancestors up
\* to the node whose parent is 0 or has no record, whatever was resolved
\* before and however often N is resolved; in the chain root->A->B->C with
\* offsets (0,0), (1,0), (0,2), (3,0), C resolves to (4,2).
C1_WorldPosIsChainSum ==
    /\ \A n \in DOMAIN memo : Acyclic(n) => memo[n] = ChainSum(n)
    /\ (wpRet # NoReturn /\ Acyclic(wpRet.pid)) => wpRet.r = ChainSum(wpRet.pid)
    /\ (ExampleChain /\ wpRet # NoReturn /\ wpRet.pid = 3) => wpRet.r = <<4, 2>>

\* C1 witness: in the example chain C has been resolved to (4,2) with the
\* whole chain already in the memo table (a repeated or later resolution).
C1_Witness ==
    /\ ExampleChain
    /\ DOMAIN memo = {1, 2, 3, 4}
    /\ wpStatus = "idle"
    /\ wpRet = [pid |-> 3, r |-> <<4, 2>>]

\* C2: a cycle in the parent relation is detected: no node is entered again
\* while its own resolution is still in progress, so the recursion cannot go
\* round the cycle.
C2_CycleDetected ==
    \A i, j \in 1..Len(wpStack) : i # j => wpStack[i] # wpStack[j]

(***************************************************************************)
(* Hierarchy helpers (composite_portraits.py 120-143).                     *)
(***************************************************************************)
\* find_node: the first record, in the dict's insertion order (ascending
\* pid in the model), whose go_name is name; 0 stands for None.
FindNode(tr, name) ==
    LET hits == {pid \in DOMAIN tr : tr[pid].go_name = name} IN
    IF hits = {} THEN 0 ELSE Min(hits)

\* [... for c in transforms[pid]["children"] if c in transforms]
RECURSIVE PresentChildren(_, _)
PresentChildren(tr, cs) ==
    IF cs = <<>> THEN <<>>
    ELSE IF Head(cs) \in DOMAIN tr
         THEN <<Head(cs)>> \o PresentChildren(tr, Tail(cs))
         ELSE PresentChildren(tr, Tail(cs))

\* children_names: the (pid, go_name) pairs of the children that have a record.
ChildrenNames(tr, pid) ==
    LET cs == PresentChildren(tr, tr[pid].children) IN
    [i \in 1..Len(cs) |-> <<cs[i], tr[cs[i]].go_name>>]

\* re.fullmatch(r"(e_\w+?)_([a-z]\d+)", name): the places of the "_" that
\* can separate group 1 from group 2; the lazy \w+? takes the first.
EyeSplits(name) ==
    {i \in 4..(Len(name) - 2) :
        /\ name[1] = "e" /\ name[2] = "_"
        /\ \A k \in 3..(i - 1) : name[k] \in Word
        /\ name[i] = "_"
        /\ name[i + 1] \in Lower
        /\ \A k \in (i + 2)..Len(name) : name[k] \in Digit}

\* parse_eye_name: <<base, frame>>, or <<>> for None.
ParseEyeName(name) ==
    IF EyeSplits(name) = {} THEN <<>>
    ELSE LET i == Min(EyeSplits(name)) IN
         <<SubSeq(name, 1, i - 1), SubSeq(name, i + 1, Len(name))>>

\* re.fullmatch(r"(m_\w+?)_(\d+)", name)
MouthSplits(name) ==
    {i \in 4..(Len(name) - 1) :
        /\ name[1] = "m" /\ name[2] = "_"
        /\ \A k \in 3..(i - 1) : name[k] \in Word
        /\ name[i] = "_"
        /\ \A k \in (i + 1)..Len(name) : name[k] \in Digit}

\* parse_mouth_name: <<base, frame>>, or <<>> for None.
ParseMouthName(name) ==
    IF MouthSplits(name) = {} THEN <<>>
    ELSE LET i == Min(MouthSplits(name)) IN
         <<SubSeq(name, 1, i - 1), SubSeq(name, i + 1, Len(name))>>

(***************************************************************************)
(* derive_groups (composite_portraits.py 180-212), one child of "top" at a *)
(* time.  The state of the loop is [groups, cur_bodies, cur_eyes,          *)
(* cur_mouths].                                                            *)
(***************************************************************************)
\* d.setdefault(k, []).append(v)
DictAppend(d, k, v) ==
    [x \in (DOMAIN d) \cup {k} |->
        IF x = k THEN (IF k \in DOMAIN d THEN Append(d[k], v) ELSE <<v>>)
        ELSE d[x]]

\* flush(): the current group is appended unless it has no body.
Flush(st) ==
    IF st.cur_bodies # <<>>
    THEN Append(st.groups, [bodies |-> st.cur_bodies, eyes |-> st.cur_eyes,
                            mouths |-> st.cur_mouths])
    ELSE st.groups

\* A mutant of HasExpressions: only the eyes are looked at.
HasExpressionsEyesOnly(st) == DOMAIN st.cur_eyes # {}

\* "if cur_eyes or cur_mouths"
HasExpressions(st) == DOMAIN st.cur_eyes # {} \/ DOMAIN st.cur_mouths # {}

\* The body of the for loop, lines 195-209, for one child name.
DgVisit(st, go_name, body_set) ==
    IF go_name \in body_set
    THEN LET st1 == IF HasExpressions(st)
                    THEN [groups |-> Flush(st), cur_bodies |-> <<>>,
                          cur_eyes |-> <<>>, cur_mouths |-> <<>>]
                    ELSE st
         IN  [st1 EXCEPT !.cur_bodies = Append(@, go_name)]
    ELSE IF go_name = N_add_parts
    THEN st
    ELSE LET ep == ParseEyeName(go_name)
             mp == ParseMouthName(go_name)
         IN  IF ep # <<>>
             THEN [st EXCEPT !.cur_eyes = DictAppend(@, ep[1], ep[2])]
             ELSE IF mp # <<>>
             THEN [st EXCEPT !.cur_mouths = DictAppend(@, mp[1], mp[2])]
             ELSE st

\* set(body_params)
BodySet(bp) == {bp[i] : i \in 1..Len(bp)}

DgState == [groups |-> groups, cur_bodies |-> cur_bodies,
            cur_eyes |-> cur_eyes, cur_mouths |-> cur_mouths]

\* Lines 181-186: the lookup of "top"; without it derive_groups returns [].
DgStart ==
    /\ dgStatus = "idle"
    /\ groups' = <<>>
    /\ cur_bodies' = <<>>
    /\ cur_eyes' = <<>>
    /\ cur_mouths' = <<>>
    /\ IF FindNode(transforms, N_top) = 0
       THEN dgStatus' = "done" /\ dgIdx' = 0
       ELSE dgStatus' = "loop" /\ dgIdx' = 1
    /\ UNCHANGED <<transforms, body_params, notGroups>>

\* Lines 194-209: one iteration of the loop over children_names(top).
DgChild ==
    /\ dgStatus = "loop"
    /\ LET kids == ChildrenNames(transforms, FindNode(transforms, N_top)) IN
       /\ dgIdx <= Len(kids)
       /\ LET st == DgVisit(DgState, kids[dgIdx][2], BodySet(body_params)) IN
          /\ groups' = st.groups
          /\ cur_bodies' = st.cur_bodies
          /\ cur_eyes' = st.cur_eyes
          /\ cur_mouths' = st.cur_mouths
    /\ dgIdx' = dgIdx + 1
    /\ UNCHANGED <<transforms, body_params, dgStatus, notGroups>>

\* Lines 211-212: the final flush() and the return.
DgFinish ==
    /\ dgStatus = "loop"
    /\ dgIdx > Len(ChildrenNames(transforms, FindNode(transforms, N_top)))
    /\ groups' = Flush(DgState)
    /\ dgStatus' = "done"
    /\ UNCHANGED <<transforms, body_params, cur_bodies, cur_eyes, cur_mouths,
                   dgIdx, notGroups>>

\* derive_groups as a function of its arguments.
RECURSIVE DgFold(_, _, _)
DgFold(st, kids, body_set) ==
    IF kids = <<>> THEN st
    ELSE DgFold(DgVisit(st, Head(kids)[2], body_set), Tail(kids), body_set)

DeriveGroups(tr, bp) ==
    IF FindNode(tr, N_top) = 0 THEN <<>>
    ELSE Flush(DgFold([groups |-> <<>>, cur_bodies |-> <<>>,
                       cur_eyes |-> <<>>, cur_mouths |-> <<>>],
                      ChildrenNames(tr, FindNode(tr, N_top)), BodySet(bp)))

\* Bounds: the number of children of "top".
MaxChildren == 4

\* The names a child of "top" carries in the model.
GroupChildNames ==
    {N_base, N_b1, N_add_parts, N_e_nom_n1, N_e_nom_f0, N_e_sml_f1,
     N_m_nom_0, N_junk}

NameLists(names, n) == UNION {[1..k -> names] : k \in 0..n}

\* A record named root_name (pid 1) whose children, pids 2.., carry the names
\* ns; the child list may also name a pid that has no record.
TreeOf(root_name, ns, dangling) ==
    [pid \in 1..(Len(ns) + 1) |->
        IF pid = 1
        THEN [go_name |-> root_name, parent |-> 0,
              children |-> IF dangling
                           THEN <<Len(ns) + 2>> \o [i \in 1..Len(ns) |-> i + 1]
                           ELSE [i \in 1..Len(ns) |-> i + 1],
              lp |-> <<0, 0>>]
        ELSE [go_name |-> ns[pid - 1], parent |-> 1, children |-> <<>>,
              lp |-> <<0, 0>>]]

GroupTransforms ==
    {TreeOf(N_top, ns, FALSE) : ns \in NameLists(GroupChildNames, MaxChildren)}
    \cup {TreeOf(N_top, <<N_base, N_e_nom_n1>>, TRUE),
          TreeOf(N_junk, <<N_base, N_e_nom_n1>>, FALSE)}

InitGroups ==
    /\ transforms \in GroupTransforms
    /\ WorldIdle
    /\ body_params = <<N_base, N_b1, N_side>>
    /\ groups = <<>>
    /\ cur_bodies = <<>>
    /\ cur_eyes = <<>>
    /\ cur_mouths = <<>>
    /\ dgIdx = 0
    /\ dgStatus = "idle"
    /\ RectsIdle
    /\ AddPartsIdle
    /\ RunIdle

NextGroups ==
    \/ DgStart
    \/ DgChild
    \/ DgFinish

SpecGroups == InitGroups /\ [][NextGroups]_vars

(***************************************************************************)
(* Claims about derive_groups.                                             *)
(***************************************************************************)
\* The names of the children of "top" that have a record, in order.
TopKids ==
    LET kids == ChildrenNames(transforms, FindNode(transforms, N_top)) IN
    [i \in 1..Len(kids) |-> kids[i][2]]

KidIsBody(i) == TopKids[i] \in BodySet(body_params)
KidIsEye(i) ==
    /\ ~KidIsBody(i)
    /\ TopKids[i] # N_add_parts
    /\ ParseEyeName(TopKids[i]) # <<>>
KidIsMouth(i) ==
    /\ ~KidIsBody(i)
    /\ TopKids[i] # N_add_parts
    /\ ParseEyeName(TopKids[i]) = <<>>
    /\ ParseMouthName(TopKids[i]) # <<>>

\* The body children at which a group starts: the first body child, and every
\* body child with an eye or mouth child between it and the body child before.
GroupStarts ==
    {i \in 1..Len(TopKids) :
        /\ KidIsBody(i)
        /\ \/ \A j \in 1..(i - 1) : ~KidIsBody(j)
           \/ \E j \in 1..(i - 1) :
                /\ KidIsEye(j) \/ KidIsMouth(j)
                /\ \A k \in (j + 1)..(i - 1) : ~KidIsBody(k)}

\* The elements of a set of integers in ascending order.
RECURSIVE Ascending(_)
Ascending(S) ==
    IF S = {} THEN <<>> ELSE <<Min(S)>> \o Ascending(S \ {Min(S)})

\* The children from the k-th group start up to the next one.
GroupSpan(k) ==
    LET starts == Ascending(GroupStarts) IN
    {i \in starts[k]..Len(TopKids) :
        k < Len(starts) => i < starts[k + 1]}

NamesAt(idx) == [j \in 1..Len(idx) |-> TopKids[idx[j]]]

\* base -> the frame tags, in child order, of the children of span that
\* parse (with Parse) to that base and are of the kind Is.
ExpectedExprs(span, Is(_), Parse(_)) ==
    LET at == {i \in span : Is(i)} IN
    [b \in {Parse(TopKids[i])[1] : i \in at} |->
        LET idx == Ascending({i \in at : Parse(TopKids[i])[1] = b}) IN
        [j \in 1..Len(idx) |-> Parse(TopKids[idx[j]])[2]]]

RECURSIVE ConcatBodies(_)
ConcatBodies(gs) ==
    IF gs = <<>> THEN <<>> ELSE Head(gs).bodies \o ConcatBodies(Tail(gs))

\* C4: derive_groups returns (1) groups whose body lists, concatenated, are
\* the body-named children in order; (2) one group per body child that
\* arrives after an eye or mouth child of the current group (and the first
\* body child); (3) in each group exactly the eye and mouth children between
\* its first body and the next group's first body, frame tags in child
\* order; (4) no group without a body.
C4_GroupsFollowChildOrder ==
    (dgStatus = "done" /\ FindNode(transforms, N_top) # 0) =>
        /\ ConcatBodies(groups)
             = NamesAt(Ascending({i \in 1..Len(TopKids) : KidIsBody(i)}))
        /\ Len(groups) = Cardinality(GroupStarts)
        /\ \A k \in 1..Len(groups) :
             /\ groups[k].bodies
                  = NamesAt(Ascending({i \in GroupSpan(k) : KidIsBody(i)}))
             /\ groups[k].eyes
                  = ExpectedExprs(GroupSpan(k), KidIsEye, ParseEyeName)
             /\ groups[k].mouths
                  = ExpectedExprs(GroupSpan(k), KidIsMouth, ParseMouthName)
             /\ groups[k].bodies # <<>>

\* C4 witness: two groups have been returned, the first with two bodies and
\* two frames of one eye base, after an eye child that preceded every body.
C4_Witness ==
    /\ dgStatus = "done"
    /\ FindNode(transforms, N_top) # 0
    /\ TopKids = <<N_e_sml_f1, N_base, N_e_nom_n1, N_b1>>
    /\ Len(groups) = 2
    /\ groups[1].bodies = <<N_base>>
    /\ DOMAIN groups[1].eyes = {<<"e", "_", "n", "o", "m">>}
    /\ groups[2].bodies = <<N_b1>>

(***************************************************************************)
(* load_sprite_rects (composite_portraits.py 263-296).                     *)
(***************************************************************************)
\* _world_pos as a function: the value returned and the memo table left.
RECURSIVE WorldPos(_, _)
WorldPos(pid, m) ==
    IF pid \in DOMAIN m THEN [r |-> m[pid], memo |-> m]
    ELSE IF pid \notin DOMAIN transforms
    THEN [r |-> <<0, 0>>, memo |-> MemoSet(m, pid, <<0, 0>>)]
    ELSE LET t == transforms[pid] IN
         IF NoResolvableParent(t.parent)
         THEN [r |-> t.lp, memo |-> MemoSet(m, pid, t.lp)]
         ELSE LET up == WorldPos(t.parent, m)
                  r  == AddOffset(up.r, t.lp)
              IN  [r |-> r, memo |-> MemoSet(up.memo, pid, r)]

\* "if name not in sprite_world: sprite_world[name] = wp(pid)" on the pair
\* [sw, memo] of the two dicts.
SetFirst(st, pid, name) ==
    IF name \in DOMAIN st.sw THEN st
    ELSE LET w == WorldPos(pid, st.memo) IN
         [sw |-> MemoSet(st.sw, name, w.r), memo |-> w.memo]

RECURSIVE SetFirstAll(_, _)
SetFirstAll(st, pairs) ==
    IF pairs = <<>> THEN st
    ELSE SetFirstAll(SetFirst(st, Head(pairs)[1], Head(pairs)[2]), Tail(pairs))

\* Lines 264-272: the dicts are created and "top" is looked up.
LsStart ==
    /\ lsStatus = "idle"
    /\ memo' = <<>>
    /\ sprite_world' = <<>>
    /\ top_pid' = FindNode(transforms, N_top)
    /\ lsIdx' = 1
    /\ lsStatus' = "top"
    /\ UNCHANGED <<transforms, sprites, sprite_rects, add_pid, notRects>>

\* Lines 273-275: one child of "top".
LsTopChild ==
    /\ lsStatus = "top"
    /\ top_pid # 0
    /\ LET kids == ChildrenNames(transforms, top_pid) IN
       /\ lsIdx <= Len(kids)
       /\ LET st == SetFirst([sw |-> sprite_world, memo |-> memo],
                             kids[lsIdx][1], kids[lsIdx][2])
          IN  sprite_world' = st.sw /\ memo' = st.memo
    /\ lsIdx' = lsIdx + 1
    /\ UNCHANGED <<transforms, sprites, sprite_rects, top_pid, add_pid,
                   lsStatus, notRects>>

\* Lines 277-278: the loop over "top" is over (or was never entered), and
\* "add_parts" is looked up.
LsAddStart ==
    /\ lsStatus = "top"
    /\ IF top_pid = 0 THEN TRUE
       ELSE lsIdx > Len(ChildrenNames(transforms, top_pid))
    /\ add_pid' = FindNode(transforms, N_add_parts)
    /\ lsIdx' = 1
    /\ lsStatus' = "add"
    /\ UNCHANGED <<transforms, memo, sprites, sprite_world, sprite_rects,
                   top_pid, notRects>>

\* Lines 279-284: one child of "add_parts" and its children.
LsAddChild ==
    /\ lsStatus = "add"
    /\ add_pid # 0
    /\ LET kids == ChildrenNames(transforms, add_pid) IN
       /\ lsIdx <= Len(kids)
       /\ LET st1 == SetFirst([sw |-> sprite_world, memo |-> memo],
                              kids[lsIdx][1], kids[lsIdx][2])
              st2 == SetFirstAll(st1, ChildrenNames(transforms, kids[lsIdx][1]))
          IN  sprite_world' = st2.sw /\ memo' = st2.memo
    /\ lsIdx' = lsIdx + 1
    /\ UNCHANGED <<transforms, sprites, sprite_rects, top_pid, add_pid,
                   lsStatus, notRects>>

\* d.m_Name.startswith("dice_")
IsDiceName(name) == StartsWith(name, <<"d", "i", "c", "e", "_">>)

\* Lines 287-295 for the Sprite objects in order: a later sprite of the same
\* name replaces the entry of an earlier one.
RECURSIVE RectsOf(_, _, _)
RectsOf(ss, sw, rects) ==
    IF ss = <<>> THEN rects
    ELSE LET d == Head(ss)
             w == IF d.m_Name \in DOMAIN sw THEN sw[d.m_Name] ELSE <<0, 0>>
         IN  IF IsDiceName(d.m_Name)
             THEN RectsOf(Tail(ss), sw, rects)
             ELSE RectsOf(Tail(ss), sw,
                          MemoSet(rects, d.m_Name,
                                  <<w[1] + d.m_Rect[1], w[2] + d.m_Rect[2],
                                    d.m_Rect[3], d.m_Rect[4]>>))

\* Lines 286-296: the rectangles of the sprites, and the return.
LsRects ==
    /\ lsStatus = "add"
    /\ IF add_pid = 0 THEN TRUE
       ELSE lsIdx > Len(ChildrenNames(transforms, add_pid))
    /\ sprite_rects' = RectsOf(sprites, sprite_world, <<>>)
    /\ lsStatus' = "done"
    /\ UNCHANGED <<transforms, memo, sprites, sprite_world, top_pid, add_pid,
                   lsIdx, notRects>>

\* The hierarchies of the model: records 1 and 2 are named "top" or
\* "add_parts"; 3 and 4 are children of 1, 5 is a child of 2 and 6 a child
\* of 5.  Names may repeat.
RectNodeNames == {N_base, N_e_nom_n1, N_base_add}

RectTransforms ==
    { [pid \in 1..6 |->
         [go_name  |-> IF pid <= 2 THEN roots[pid] ELSE names[pid],
          parent   |-> CASE pid \in {1, 2} -> 0
                         [] pid \in {3, 4} -> 1
                         [] pid = 5 -> 2
                         [] OTHER -> 5,
          children |-> CASE pid = 1 -> <<3, 4>>
                         [] pid = 2 -> <<5>>
                         [] pid = 5 -> <<6>>
                         [] OTHER -> <<>>,
          lp       |-> OffsetTable(k, pid)]] :
      roots \in [1..2 -> {N_top, N_add_parts}],
      names \in [3..6 -> RectNodeNames],
      k \in 1..2 }

\* The Sprite objects: m_Rect is (x, y, width, height).
RectSprites ==
    { <<[m_Name |-> <<"d", "i", "c", "e", "_", "a", "v", "i">>,
         m_Rect |-> <<0, 0, 64, 64>>],
        [m_Name |-> N_base, m_Rect |-> <<-5, -8, 10, 16>>],
        [m_Name |-> N_e_nom_n1, m_Rect |-> <<-2, 1, 4, 2>>],
        [m_Name |-> N_base_add, m_Rect |-> <<0, 0, 3, 3>>]>> }

InitRects ==
    /\ transforms \in RectTransforms
    /\ sprites \in RectSprites
    /\ WorldIdle
    /\ GroupsIdle
    /\ sprite_world = <<>>
    /\ sprite_rects = <<>>
    /\ top_pid = 0
    /\ add_pid = 0
    /\ lsIdx = 0
    /\ lsStatus = "idle"
    /\ AddPartsIdle
    /\ RunIdle

NextRects ==
    \/ LsStart
    \/ LsTopChild
    \/ LsAddStart
    \/ LsAddChild
    \/ LsRects

SpecRects == InitRects /\ [][NextRects]_vars

(***************************************************************************)
(* Claims about the lookup by name.                                        *)
(***************************************************************************)
\* The records that carry a display name.
NodesNamed(name) == {pid \in DOMAIN transforms : transforms[pid].go_name = name}

\* C3: a display name that two or more records share is not silently
\* resolved to one of them: the lookup of "top" or "add_parts" picks no
\* record for a shared name, and no position is taken for a sprite name that
\* two of the visited children share.
C3_DuplicateNameNotUsed ==
    /\ (lsStatus # "idle" /\ Cardinality(NodesNamed(N_top)) >= 2)
          => top_pid \notin NodesNamed(N_top)
    /\ (lsStatus \in {"add", "done"} /\ Cardinality(NodesNamed(N_add_parts)) >= 2)
          => add_pid \notin NodesNamed(N_add_parts)
    /\ (lsStatus # "idle" /\ top_pid # 0)
          => \A i, j \in 1..Len(ChildrenNames(transforms, top_pid)) :
                LET kids == ChildrenNames(transforms, top_pid) IN
                (i < j /\ j < lsIdx /\ kids[i][2] = kids[j][2])
                    => kids[i][2] \notin DOMAIN sprite_world

(***************************************************************************)
(* derive_add_parts (composite_portraits.py 215-256), one child of         *)
(* "add_parts" at a time.  The returned dict is add_parts: "cheek" -> list *)
(* of names, family name -> [add, addrev, extras].                         *)
(***************************************************************************)
\* re.search(r"_add\d+$", name)
IsNumberedAdd(name) ==
    \E i \in 1..(Len(name) - 4) :
        /\ SubSeq(name, i, i + 3) = <<"_", "a", "d", "d">>
        /\ \A k \in (i + 4)..Len(name) : name[k] \in Digit

\* name.endswith("_addrev")
IsAddRev(name) == EndsWith(name, <<"_", "a", "d", "d", "r", "e", "v">>)

\* A mutant of AccVisit: a name with neither suffix is dropped.
AccVisitNoElse(lists, name) ==
    IF IsAddRev(name)
    THEN [lists EXCEPT !.addrev = Append(@, name)]
    ELSE IF IsNumberedAdd(name)
    THEN [lists EXCEPT !.extras = Append(@, name)]
    ELSE lists

\* Lines 246-252: one accessory sprite name is appended to one list.
AccVisit(lists, name) ==
    IF IsAddRev(name)
    THEN [lists EXCEPT !.addrev = Append(@, name)]
    ELSE IF IsNumberedAdd(name)
    THEN [lists EXCEPT !.extras = Append(@, name)]
    ELSE [lists EXCEPT !.add = Append(@, name)]

\* Lines 242-252 for the children of a family that have a record.
RECURSIVE FamilyLists(_, _)
FamilyLists(lists, kids) ==
    IF kids = <<>> THEN lists
    ELSE FamilyLists(AccVisit(lists, Head(kids)[2]), Tail(kids))

\* Lines 236-240: the names under "basecmn" join the cheek list once each.
RECURSIVE CheekList(_, _)
CheekList(cheek, kids) ==
    IF kids = <<>> THEN cheek
    ELSE IF \E i \in 1..Len(cheek) : cheek[i] = Head(kids)[2]
         THEN CheekList(cheek, Tail(kids))
         ELSE CheekList(Append(cheek, Head(kids)[2]), Tail(kids))

\* Lines 232-255 for one child c_pid of "add_parts" (it has a record).
ApVisit(result, c_pid) ==
    LET child_go == transforms[c_pid].go_name
        kids     == ChildrenNames(transforms, c_pid)
    IN  IF child_go = N_basecmn
        THEN MemoSet(result, N_cheek, CheekList(result[N_cheek], kids))
        ELSE MemoSet(result, child_go,
                     FamilyLists([add |-> <<>>, addrev |-> <<>>,
                                  extras |-> <<>>], kids))

\* Lines 226-230: without an "add_parts" record the result is {}.
ApStart ==
    /\ apStatus = "idle"
    /\ IF FindNode(transforms, N_add_parts) = 0
       THEN add_parts' = <<>> /\ apStatus' = "done" /\ apIdx' = 0
       ELSE /\ add_parts' = MemoSet(<<>>, N_cheek, <<>>)
            /\ apStatus' = "loop"
            /\ apIdx' = 1
    /\ UNCHANGED <<transforms, notAddParts>>

\* Lines 231-255: one iteration; a child id without a record is passed over.
ApChild ==
    /\ apStatus = "loop"
    /\ LET cs == transforms[FindNode(transforms, N_add_parts)].children IN
       /\ apIdx <= Len(cs)
       /\ IF cs[apIdx] \in DOMAIN transforms
          THEN add_parts' = ApVisit(add_parts, cs[apIdx])
          ELSE add_parts' = add_parts
    /\ apIdx' = apIdx + 1
    /\ UNCHANGED <<transforms, apStatus, notAddParts>>

\* Line 256.
ApFinish ==
    /\ apStatus = "loop"
    /\ apIdx > Len(transforms[FindNode(transforms, N_add_parts)].children)
    /\ apStatus' = "done"
    /\ UNCHANGED <<transforms, add_parts, apIdx, notAddParts>>

\* derive_add_parts as a function of transforms.
RECURSIVE ApFold(_, _)
ApFold(result, cs) ==
    IF cs = <<>> THEN result
    ELSE ApFold(IF Head(cs) \in DOMAIN transforms
                THEN ApVisit(result, Head(cs)) ELSE result, Tail(cs))

DeriveAddParts ==
    IF FindNode(transforms, N_add_parts) = 0 THEN <<>>
    ELSE ApFold(MemoSet(<<>>, N_cheek, <<>>),
                transforms[FindNode(transforms, N_add_parts)].children)

\* Bounds: the number of accessory sprites of a family.
MaxAccessories == 2

FamilyNames == {N_base, N_b1, N_basecmn}
AccessoryNames == {N_base_add, N_base_addrev, N_base_add13, N_base_cheek}

\* "add_parts" (pid 1, or a record of another name) with the two families 2
\* and 3 and a child id, 4, that has no record; the accessory sprites of the
\* families are the records from 5 on.  Family and sprite names may repeat.
AddTransforms ==
    { [pid \in ({1, 2, 3} \cup (5..(4 + Len(a) + Len(b)))) |->
         CASE pid = 1 ->
                [go_name |-> root, parent |-> 0, children |-> <<2, 4, 3>>,
                 lp |-> <<0, 0>>]
           [] pid = 2 ->
                [go_name |-> fam[1], parent |-> 1,
                 children |-> [i \in 1..Len(a) |-> 4 + i], lp |-> <<0, 0>>]
           [] pid = 3 ->
                [go_name |-> fam[2], parent |-> 1,
                 children |-> [i \in 1..Len(b) |-> 4 + Len(a) + i],
                 lp |-> <<0, 0>>]
           [] OTHER ->
                [go_name |-> IF pid <= 4 + Len(a) THEN a[pid - 4]
                             ELSE b[pid - 4 - Len(a)],
                 parent |-> IF pid <= 4 + Len(a) THEN 2 ELSE 3,
                 children |-> <<>>, lp |-> <<0, 0>>]] :
      root \in {N_add_parts},
      fam \in [1..2 -> FamilyNames],
      a \in NameLists(AccessoryNames, MaxAccessories),
      b \in NameLists(AccessoryNames, MaxAccessories) }
    \cup {TreeOf(N_junk, <<N_base>>, FALSE)}

InitAddParts ==
    /\ transforms \in AddTransforms
    /\ WorldIdle
    /\ GroupsIdle
    /\ RectsIdle
    /\ AddPartsIdle
    /\ RunIdle

NextAddParts ==
    \/ ApStart
    \/ ApChild
    \/ ApFinish

SpecAddParts == InitAddParts /\ [][NextAddParts]_vars

(***************************************************************************)
(* Claims about derive_add_parts.                                          *)
(***************************************************************************)
InList(list, x) == \E i \in 1..Len(list) : list[i] = x

ListKeys == {"add", "addrev", "extras"}

\* The child of "add_parts" that the loop has just dealt with (0: none yet).
LastFamily ==
    IF apStatus = "idle" \/ apIdx <= 1 THEN 0
    ELSE transforms[FindNode(transforms, N_add_parts)].children[apIdx - 1]

Max(S) == CHOOSE x \in S : \A y \in S : x >= y

\* f"{a}_{b}"
Under(a, b) == a \o <<"_">> \o b

\* expression_core: the e_/m_ prefix goes, and so does one trailing "_x".
ExpressionCore(base) ==
    LET tag == AfterFirstUnderscore(base) IN
    IF Len(tag) >= 2 /\ tag[Len(tag) - 1] = "_" /\ tag[Len(tag)] \in Lower
    THEN SubSeq(tag, 1, Len(tag) - 2)
    ELSE tag

\* expr_unique: what is left of the base after the prefix and the core.
ExprUnique(base, core) ==
    LET tag == AfterFirstUnderscore(base) IN
    IF tag = core THEN <<>>
    ELSE IF StartsWith(tag, core \o <<"_">>)
    THEN SubSeq(tag, Len(core) + 2, Len(tag))
    ELSE tag

EYE_FRAME_PREF ==
    << <<"n", "1">>, <<"n", "0">>, <<"f", "0">>, <<"f", "1">>,
       <<"b", "0">>, <<"b", "1">>, <<"n", "2">> >>
MOUTH_FRAME_PREF == << <<"1">>, <<"0">>, <<"2">> >>

\* A mutant of BestFrame: the first of frames that is preferred at all.
BestFrameListOrder(pref, frames) ==
    LET hits == {i \in 1..Len(frames) : InList(pref, frames[i])} IN
    IF hits # {} THEN frames[Min(hits)]
    ELSE IF frames # <<>> THEN frames[1] ELSE <<>>

\* The first preferred tag that is among frames, else frames[0], else None
\* (the empty string stands for None: both are false in "if f").
BestFrame(pref, frames) ==
    LET hits == {i \in 1..Len(pref) : InList(frames, pref[i])} IN
    IF hits # {} THEN pref[Min(hits)]
    ELSE IF frames # <<>> THEN frames[1] ELSE <<>>

BestEyeFrame(frames) == BestFrame(EYE_FRAME_PREF, frames)
BestMouthFrame(frames) == BestFrame(MOUTH_FRAME_PREF, frames)

\* _BASE_FAMILY_RE.match(body): ^(base|b[0-9x])$
IsBaseFamily(body) ==
    \/ body = N_base
    \/ Len(body) = 2 /\ body[1] = "b" /\ body[2] \in Digit \cup {"x"}

\* union_rect of the rectangles (x, y, width, height) of a collection.
UnionRect(rects) ==
    IF rects = {} THEN <<0, 0, 0, 0>>
    ELSE LET l == Min({r[1] : r \in rects})
             b == Min({r[2] : r \in rects})
         IN  <<l, b, Max({r[1] + r[3] : r \in rects}) - l,
               Max({r[2] + r[4] : r \in rects}) - b>>

\* world_to_canvas: the top-left corner of rect on the canvas, y downwards.
WorldToCanvas(rect, canvas_rect) ==
    <<rect[1] - canvas_rect[1],
      canvas_rect[4] - (rect[2] + rect[4] - canvas_rect[2])>>

\* sprite_name.replace("/", "_").replace("\\", "_").replace(" ", "_")
SafeName(sprite_name) ==
    [i \in 1..Len(sprite_name) |->
        IF sprite_name[i] \in {"/", "\\", " "} THEN "_" ELSE sprite_name[i]]

\* os.path.join(SPRITES_DIR, char_code, f"{safe}.png"), as its two parts.
PngPath(code, sprite_name) == <<code, SafeName(sprite_name)>>

\* load_png returns None for a file that does not exist.
NoImage == [width |-> -1, height |-> -1]

(***************************************************************************)
(* process_bundle of the compositor (composite_portraits.py 364-563).      *)
(* Its nested functions read process_bundle's variables, as here.          *)
(***************************************************************************)
\* load_sprite_rects as a function of transforms and the Sprite objects.
RECURSIVE LsAddFold(_, _)
LsAddFold(st, kids) ==
    IF kids = <<>> THEN st
    ELSE LsAddFold(
            SetFirstAll(SetFirst(st, Head(kids)[1], Head(kids)[2]),
                        ChildrenNames(transforms, Head(kids)[1])),
            Tail(kids))

LoadSpriteRects ==
    LET top == FindNode(transforms, N_top)
        add == FindNode(transforms, N_add_parts)
        st1 == IF top = 0 THEN [sw |-> <<>>, memo |-> <<>>]
               ELSE SetFirstAll([sw |-> <<>>, memo |-> <<>>],
                                ChildrenNames(transforms, top))
        st2 == IF add = 0 THEN st1
               ELSE LsAddFold(st1, ChildrenNames(transforms, add))
    IN  RectsOf(sprites, st2.sw, <<>>)

\* add_parts.get("cheek", [])
CheekLayers == IF N_cheek \in DOMAIN add_parts THEN add_parts[N_cheek] ELSE <<>>

NoAccessories == [add |-> <<>>, addrev |-> <<>>, extras |-> <<>>]

\* Lines 423-425: add_parts.get(body, {}), and a list made a dict.
VariantInfo(body) ==
    IF body \notin DOMAIN add_parts THEN NoAccessories
    ELSE IF body = N_cheek
    THEN [add |-> add_parts[body], addrev |-> <<>>, extras |-> <<>>]
    ELSE add_parts[body]

\* Lines 398-413: the names of the layers the canvas has to cover.
RelevantLayers(body, group) ==
    LET info == IF body \in DOMAIN add_parts /\ body # N_cheek
                THEN add_parts[body] ELSE NoAccessories
    IN  {body}
        \cup {Under(e_base, BestEyeFrame(group.eyes[e_base])) :
                e_base \in {e \in DOMAIN group.eyes :
                               BestEyeFrame(group.eyes[e]) # <<>>}}
        \cup {Under(m_base, BestMouthFrame(group.mouths[m_base])) :
                m_base \in {m \in DOMAIN group.mouths :
                               BestMouthFrame(group.mouths[m]) # <<>>}}
        \cup {info.add[i] : i \in 1..Len(info.add)}
        \cup {info.addrev[i] : i \in 1..Len(info.addrev)}
        \cup {info.extras[i] : i \in 1..Len(info.extras)}
        \cup (IF CheekLayers # <<>> /\ IsBaseFamily(body)
              THEN {CheekLayers[i] : i \in 1..Len(CheekLayers)} ELSE {})

\* canvas_for_body; <<>> stands for None.
CanvasForBody(body, group) ==
    LET rects == {sprite_rects[n] :
                    n \in RelevantLayers(body, group) \cap DOMAIN sprite_rects}
    IN  IF rects # {} THEN UnionRect(rects)
        ELSE IF body \in DOMAIN sprite_rects THEN sprite_rects[body] ELSE <<>>

\* A mutant of AccOpts: the mirrored accessories come on top of the standard
\* ones and the portrait is not flipped.
AccOptsNoFlip(body) ==
    <<[sfx |-> "", lyr |-> VariantInfo(body).add, flip |-> FALSE]>>
    \o (IF opts.rev /\ VariantInfo(body).addrev # <<>>
        THEN <<[sfx |-> "rev",
                lyr |-> VariantInfo(body).add \o VariantInfo(body).addrev,
                flip |-> FALSE]>>
        ELSE <<>>)

\* Lines 432-434: the accessory axis.
AccOpts(body) ==
    <<[sfx |-> "", lyr |-> VariantInfo(body).add, flip |-> FALSE]>>
    \o (IF opts.rev /\ VariantInfo(body).addrev # <<>>
        THEN <<[sfx |-> "rev", lyr |-> VariantInfo(body).addrev, flip |-> TRUE]>>
        ELSE <<>>)

\* Lines 436-438: the extras axis.
ExtOpts(body) ==
    <<[sfx |-> "", lyr |-> <<>>]>>
    \o (IF opts.extra /\ VariantInfo(body).extras # <<>>
        THEN <<[sfx |-> "extra", lyr |-> VariantInfo(body).extras]>>
        ELSE <<>>)

\* A mutant of CkOpts: the blush variant is built for every body.
CkOptsAnyBody(body) ==
    <<[sfx |-> "", lyr |-> <<>>]>>
    \o (IF opts.blush /\ CheekLayers # <<>>
        THEN <<[sfx |-> "blush", lyr |-> CheekLayers]>>
        ELSE <<>>)

\* Lines 430, 440-442: the cheek axis.
CkOpts(body) ==
    <<[sfx |-> "", lyr |-> <<>>]>>
    \o (IF opts.blush /\ CheekLayers # <<>> /\ IsBaseFamily(body)
        THEN <<[sfx |-> "blush", lyr |-> CheekLayers]>>
        ELSE <<>>)

\* build_variants: the variants in the order of the three nested loops.  The
\* directory is kept as the non-empty suffixes that "_".join makes its name
\* (none: char_dir itself).
BuildVariants(body) ==
    LET acc == AccOpts(body)
        ext == ExtOpts(body)
        ck  == CkOpts(body)
    IN  [k \in 1..(Len(acc) * Len(ext) * Len(ck)) |->
            LET a == acc[((k - 1) \div (Len(ext) * Len(ck))) + 1]
                e == ext[(((k - 1) \div Len(ck)) % Len(ext)) + 1]
                c == ck[((k - 1) % Len(ck)) + 1]
            IN  [subdir |-> SelectSeq(<<a.sfx, e.sfx, c.sfx>>,
                                      LAMBDA x : x # ""),
                 layers |-> a.lyr \o e.lyr \o c.lyr,
                 flip   |-> a.flip]]

\* A mutant of LoadPng: a file that does not exist gives a blank image.
LoadPngBlank(code, sprite_name) ==
    LET path == PngPath(code, sprite_name) IN
    IF path \in DOMAIN png_cache /\ png_cache[path] # NoImage
    THEN png_cache[path]
    ELSE IF path \in DOMAIN pngs THEN pngs[path]
    ELSE [width |-> 1, height |-> 1]

\* Line 449: "_".join(parts)
RECURSIVE SubdirName(_)
SubdirName(parts) ==
    IF parts = <<>> THEN ""
    ELSE IF Len(parts) = 1 THEN parts[1]
    ELSE parts[1] \o "_" \o SubdirName(Tail(parts))

\* load_png: the cached image if the path is cached, else what is on disk.
LoadPng(code, sprite_name) ==
    LET path == PngPath(code, sprite_name) IN
    IF path \in DOMAIN png_cache THEN png_cache[path]
    ELSE IF path \in DOMAIN pngs THEN pngs[path] ELSE NoImage

\* _png_cache after load_png has been called for the names.
PngCacheAfter(code, names) ==
    [path \in (DOMAIN png_cache) \cup {PngPath(code, n) : n \in names} |->
        IF path \in DOMAIN png_cache THEN png_cache[path]
        ELSE IF path \in DOMAIN pngs THEN pngs[path] ELSE NoImage]

\* Lines 350-355: is the layer pasted?
LayerDrawn(name, canvas_rect, code) ==
    /\ LoadPng(code, name) # NoImage
    /\ name \in DOMAIN sprite_rects
    /\ LET d == WorldToCanvas(sprite_rects[name], canvas_rect) IN
       ~(d[1] < -LoadPng(code, name).width \/ d[2] < -LoadPng(code, name).height)

\* composite_portrait: the canvas size and, bottom layer first, what was
\* pasted where.
CompositePortrait(layers, canvas_rect, code) ==
    LET drawn == SelectSeq(layers, LAMBDA n : LayerDrawn(n, canvas_rect, code)) IN
    [size  |-> <<canvas_rect[3], canvas_rect[4]>>,
     drawn |-> [i \in 1..Len(drawn) |->
                  LET d == WorldToCanvas(sprite_rects[drawn[i]], canvas_rect) IN
                  [name |-> drawn[i],
                   dest |-> <<IF d[1] > 0 THEN d[1] ELSE 0,
                              IF d[2] > 0 THEN d[2] ELSE 0>>]]]

DotPng == <<".", "p", "n", "g">>

\* A mutant of ByCore: every base is filed under one and the same core.
ByCoreOne(exprs) ==
    [core \in {<<>> : b \in DOMAIN exprs} |-> DOMAIN exprs]

\* Lines 501-507: core -> the bases of that core.
ByCore(exprs) ==
    [core \in {ExpressionCore(b) : b \in DOMAIN exprs} |->
        {b \in DOMAIN exprs : ExpressionCore(b) = core}]

\* A mutant of FrameItems: only the first frame of a base is gone through.
FrameItemsFirst(exprs, bases) == {<<b, 1>> : b \in bases}

\* The (base, frame index) pairs of "for base, frames in ...: for f in frames".
FrameItems(exprs, bases) ==
    UNION {{<<b, i>> : i \in 1..Len(exprs[b])} : b \in bases}

\* f"e_{e_u}_{ef}" if e_u else f"e_{ef}" (and the same with "m")
ExprPart(letter, base, core, frame) ==
    IF ExprUnique(base, core) # <<>>
    THEN Under(Under(<<letter>>, ExprUnique(base, core)), frame)
    ELSE Under(<<letter>>, frame)

\* One save() call: the iteration of the loops that made it, the directory,
\* the file name, the flip and the image.
Portrait(kind, n, cur, core, e, m, v, vs, stem, layers, canvas_rect) ==
    [kind |-> kind, body_index |-> n, gi |-> cur.gi, body |-> cur.body,
     core |-> core, e_base |-> e[1], e_i |-> e[2], m_base |-> m[1],
     m_i |-> m[2], v |-> v, subdir |-> vs[v].subdir,
     fname |-> stem \o DotPng, flip |-> vs[v].flip,
     layers |-> layers \o vs[v].layers,
     image |-> CompositePortrait(layers \o vs[v].layers, canvas_rect,
                                 char_code)]

NoExpr == <<<<>>, 0>>

\* Lines 488-494: the body-only portraits.
BodyOnly(n, cur, vs, canvas_rect) ==
    {Portrait("body", n, cur, <<>>, NoExpr, NoExpr, v, vs, cur.body,
              <<cur.body>>, canvas_rect) : v \in 1..Len(vs)}

\* Lines 511-527: the mouth-only portraits of one core.
MouthOnlyOf(core, n, cur, vs, group, canvas_rect) ==
    {Portrait("mouth", n, cur, core, NoExpr, m, v, vs,
              LET m_part == ExprPart("m", m[1], core, group.mouths[m[1]][m[2]])
              IN  IF core = cur.body THEN Under(cur.body, m_part)
                  ELSE Under(Under(cur.body, core), m_part),
              <<cur.body, Under(m[1], group.mouths[m[1]][m[2]])>>,
              canvas_rect) :
        m \in FrameItems(group.mouths, ByCore(group.mouths)[core]),
        v \in 1..Len(vs)}

\* Lines 530-559: the paired portraits of one core.
PairedOf(core, n, cur, vs, group, canvas_rect) ==
    {Portrait("pair", n, cur, core, e, m, v, vs,
              LET e_part == ExprPart("e", e[1], core, group.eyes[e[1]][e[2]])
                  m_part == ExprPart("m", m[1], core, group.mouths[m[1]][m[2]])
              IN  IF core = cur.body THEN Under(Under(cur.body, e_part), m_part)
                  ELSE Under(Under(Under(cur.body, core), e_part), m_part),
              <<cur.body, Under(e[1], group.eyes[e[1]][e[2]]),
                Under(m[1], group.mouths[m[1]][m[2]])>>,
              canvas_rect) :
        e \in FrameItems(group.eyes, ByCore(group.eyes)[core]),
        m \in FrameItems(group.mouths, ByCore(group.mouths)[core]),
        v \in 1..Len(vs)}

\* A mutant of WantsBodyOnly: the body-only portrait is made for every body.
WantsBodyOnlyAlways(has_exprs) == TRUE

\* Line 488: char_code == "xxx" or not has_exprs
WantsBodyOnly(has_exprs) == char_code = N_xxx \/ ~has_exprs

\* A mutant of WantsMouthOnly: the mouth-only loop is entered whenever there
\* are mouths, eyes or not.
WantsMouthOnlyWithEyes(group) == DOMAIN group.mouths # {}

\* A mutant of WantsMouthOnly: the mouth-only loop is never entered.
WantsMouthOnlyNever(group) == FALSE

\* Line 510: not eye_by_core and mouth_by_core
WantsMouthOnly(group) == DOMAIN group.eyes = {} /\ DOMAIN group.mouths # {}

\* Lines 482-559: every save() of one body that has a rectangle and a canvas.
BodyPortraits(n, cur, vs, group, canvas_rect) ==
    LET has_exprs == DOMAIN group.eyes # {} \/ DOMAIN group.mouths # {} IN
    (IF WantsBodyOnly(has_exprs)
     THEN BodyOnly(n, cur, vs, canvas_rect) ELSE {})
    \cup (IF WantsMouthOnly(group)
          THEN UNION {MouthOnlyOf(core, n, cur, vs, group, canvas_rect) :
                        core \in DOMAIN ByCore(group.mouths)}
          ELSE {})
    \cup UNION {PairedOf(core, n, cur, vs, group, canvas_rect) :
                  core \in (DOMAIN ByCore(group.eyes))
                            \cap (DOMAIN ByCore(group.mouths))}

\* The (group index, body) pairs in the order of the two loops 464, 468.
RECURSIVE FlatBodies(_, _)
FlatBodies(gs, gi) ==
    IF gi > Len(gs) THEN <<>>
    ELSE [i \in 1..Len(gs[gi].bodies) |-> [gi |-> gi, body |-> gs[gi].bodies[i]]]
         \o FlatBodies(gs, gi + 1)

(***************************************************************************)
(* The bundles of the model: what UnityPy.load hands to process_bundle.    *)
(***************************************************************************)
\* m_LocalPosition of the GameObject of a name.
NameOffset(name) ==
    CASE name = N_side -> <<1, 0>>
      [] name \in {N_e_nom_n1, N_e_nom_s_n1} -> <<0, 3>>
      [] name = N_e_nom_f0 -> <<-7, 3>>
      [] name = N_e_sml_f1 -> <<0, 12>>
      [] name \in {N_m_nom_0, N_m_nom_1, N_m_nom_i_2} -> <<0, -3>>
      [] name = N_m_sml_0 -> <<-9, -3>>
      [] name = N_base_add -> <<4, 6>>
      [] name = N_base_addrev -> <<-4, 6>>
      [] name = N_base_add13 -> <<0, 9>>
      [] name \in {N_b1_add, N_b1_addrev} -> <<3, -20>>
      [] OTHER -> <<0, 0>>

\* m_Rect of the Sprite of a name.
NameRect(name) ==
    CASE name \in {N_base, N_b1} -> <<-5, -8, 10, 16>>
      [] name = N_side -> <<-4, -8, 8, 16>>
      [] name = N_base_cheek -> <<-3, -1, 6, 2>>
      [] name = N_base_add13 -> <<-1, -1, 2, 2>>
      [] name \in {N_base_add, N_base_addrev, N_b1_add, N_b1_addrev}
           -> <<-2, -2, 4, 4>>
      [] OTHER -> <<-2, -1, 4, 2>>

\* The records of a list of [go_name, parent]: the pid is the place in the
\* list, the children are in ascending pid.
TreeOfNodes(nodes) ==
    [pid \in 1..Len(nodes) |->
        [go_name  |-> nodes[pid].go_name,
         parent   |-> nodes[pid].parent,
         children |-> Ascending({c \in 1..Len(nodes) : nodes[c].parent = pid}),
         lp       |-> NameOffset(nodes[pid].go_name)]]

\* "top" with the children kids, the last of them "add_parts" when acc is
\* not empty; acc lists [go_name, up] with up the place in acc of the parent.
BundleTree(kids, acc) ==
    TreeOfNodes(
        <<[go_name |-> N_top, parent |-> 0]>>
        \o [i \in 1..Len(kids) |-> [go_name |-> kids[i], parent |-> 1]]
        \o [i \in 1..Len(acc) |->
              [go_name |-> acc[i].go_name,
               parent  |-> IF acc[i].up = 0 THEN 1
                           ELSE 1 + Len(kids) + acc[i].up]])

\* The lists of s with some elements left out.
SubLists(s) ==
    {[j \in 1..Cardinality(S) |-> s[Ascending(S)[j]]] : S \in SUBSET (1..Len(s))}

\* The children of "top": "base" and any of two eye and two mouth frames of
\* one core after it; no body at all; a body name twice; bases with
\* sub-variant letters and bases of cores that do not match; other bodies.
BundleKids ==
    {<<N_base>> \o s :
        s \in SubLists(<<N_e_nom_n1, N_e_nom_f0, N_m_nom_0, N_m_nom_1>>)}
    \cup {<<>>,
          <<N_e_nom_n1, N_m_nom_0>>,
          <<N_base, N_e_nom_n1, N_m_nom_0, N_base, N_e_sml_f1, N_m_sml_0>>,
          <<N_base, N_e_nom_n1, N_e_nom_s_n1, N_m_nom_0, N_m_nom_i_2, N_m_sml_0>>,
          <<N_b1, N_e_sml_f1, N_m_nom_0>>,
          <<N_side, N_e_nom_n1, N_m_nom_0>>,
          <<N_base, N_side>>}

BundleAccessories ==
    {<<>>,
     <<[go_name |-> N_add_parts, up |-> 0],
       [go_name |-> N_base, up |-> 1],
       [go_name |-> N_base_add, up |-> 2]>>,
     <<[go_name |-> N_add_parts, up |-> 0],
       [go_name |-> N_base, up |-> 1],
       [go_name |-> N_base_add, up |-> 2],
       [go_name |-> N_base_addrev, up |-> 2],
       [go_name |-> N_base_add13, up |-> 2],
       [go_name |-> N_basecmn, up |-> 1],
       [go_name |-> N_base_cheek, up |-> 6],
       [go_name |-> N_side, up |-> 1],
       [go_name |-> N_b1_addrev, up |-> 8]>>}

\* The names that can have a Sprite object, in the order of env.objects.
SpriteNames ==
    <<N_base, N_b1, N_side, N_e_nom_n1, N_e_nom_f0, N_e_nom_s_n1, N_e_sml_f1,
      N_m_nom_0, N_m_nom_1, N_m_nom_i_2, N_m_sml_0, N_base_add, N_base_addrev,
      N_base_add13, N_base_cheek, N_b1_addrev>>

N_dice == <<"d", "i", "c", "e", "_", "a", "v", "i">>

\* The Sprite objects: the dice atlas and one sprite for each of names.
SpritesOf(names) ==
    <<[m_Name |-> N_dice, m_Rect |-> <<0, 0, 64, 64>>]>>
    \o [i \in 1..Len(names) |-> [m_Name |-> names[i], m_Rect |-> NameRect(names[i])]]

\* The PNG files the reconstructor left for the character: one for each of
\* names, of the size of the sprite.
PngsOf(code, names) ==
    [path \in {PngPath(code, names[i]) : i \in 1..Len(names)} |->
        LET n == CHOOSE n \in {names[i] : i \in 1..Len(names)} :
                    PngPath(code, n) = path
        IN  [width |-> NameRect(n)[3], height |-> NameRect(n)[4]]]

\* What is on disk for one bundle: every sprite and PNG; no Sprite object for
\* "side"; no Sprite object for "m_nom_0" and no PNG file for "m_nom_1".
BundleDisks ==
    {[no_sprite |-> {}, no_png |-> {}],
     [no_sprite |-> {N_side}, no_png |-> {}],
     [no_sprite |-> {N_m_nom_0}, no_png |-> {N_m_nom_1}]}

\* m_bodyParameters of the bundle's MonoBehaviour.
BundleBodyParams == <<N_base, N_b1, N_side>>

\* The bundles: every hierarchy with every state of the disk that leaves out
\* nothing but names of the hierarchy, and one bundle whose MonoBehaviour
\* has no m_bodyParameters.
BundleEnvs ==
    {env \in [kids : BundleKids, acc : BundleAccessories, disk : BundleDisks,
              body_params : {BundleBodyParams}] :
        env.disk.no_sprite \cup env.disk.no_png
            \subseteq {env.kids[i] : i \in 1..Len(env.kids)}}
    \cup {[kids |-> <<N_base>>, acc |-> <<>>,
           disk |-> [no_sprite |-> {}, no_png |-> {}], body_params |-> <<>>]}

\* The names of the GameObjects of a bundle: each has a sprite of its name,
\* unless the disk leaves it out.
EnvNames(env) ==
    {env.kids[i] : i \in 1..Len(env.kids)}
    \cup {env.acc[i].go_name : i \in 1..Len(env.acc)}

\* Bounds: the number of files in the bundles directory.
MaxBundles == 2

\* The name of the i-th bundle file: a001, a002, ...
BundleName(i) == <<"a", "0", "0", CHOOSE d \in Digit : d = ToString(i)>>

\* The variables the run of a script never touches.
stepVars == <<worldVars, cur_bodies, cur_eyes, cur_mouths, dgIdx, dgStatus,
              sprite_world, top_pid, add_pid, lsIdx, lsStatus, apIdx, apStatus,
              frameVars, selVars, pathVars, quadVars>>

\* What process_bundle has hold of: the bundle and what it derives from it.
bundleVars == <<transforms, sprites, sprite_rects, body_params, groups, add_parts>>

\* A line main writes: its fixed text and the bundle it names (the text of
\* an exception is left out).
MainLine(line, bname) == [line |-> line, bname |-> bname]

BodyLine(line, index, body, count) ==
    [line |-> line, index |-> index, body |-> body, count |-> count]

\* A mutant of EmptyCache: process_bundle goes on with the cache it finds.
KeptCache == png_cache

\* Line 366: process_bundle starts on a new, empty cache.
EmptyCache == <<>>

\* process_bundle is over, by return or by an exception: its variables go;
\* the cache is a global of the module and stays as it is.
PbLocalsGone ==
    /\ transforms' = <<>>
    /\ sprites' = <<>>
    /\ sprite_rects' = <<>>
    /\ body_params' = <<>>
    /\ groups' = <<>>
    /\ add_parts' = <<>>
    /\ char_code' = <<>>
    /\ pngs' = <<>>
    /\ pbStatus' = "idle"
    /\ body_index' = 0
    /\ variants' = <<>>
    /\ saved' = 0
    /\ portraits' = {}
    /\ bundle_log' = <<>>

\* Lines 590-625 of main, run without a character argument: bundle_files is
\* all_files, and the header is logged.
CpMainStart ==
    /\ program = "composite_portraits"
    /\ mainStatus = "start"
    /\ log' = <<MainLine("Compositing portraits", <<>>)>>
    /\ path_i' = 1
    /\ mainStatus' = "loop"
    /\ UNCHANGED <<program, opts, bundle_files, stepVars, bundleVars, pbVars,
                   rbVars>>

\* Lines 627-631, 366: the next path is logged and process_bundle is called;
\* its first statement empties the cache.
CpMainBundle ==
    /\ program = "composite_portraits"
    /\ mainStatus = "loop"
    /\ path_i <= Len(bundle_files)
    /\ log' = Append(log, MainLine("...", bundle_files[path_i]))
    /\ mainStatus' = "bundle"
    /\ pbStatus' = "called"
    /\ png_cache' = EmptyCache
    /\ UNCHANGED <<program, opts, bundle_files, path_i, stepVars, bundleVars,
                   char_code, pngs, body_index, variants, saved,
                   portraits, bundle_log, rbVars>>

\* Lines 368-374: the bundle is loaded, the character code read and the
\* transform tree built.  The MonoBehaviour of lines
\* 378-386 is part of what is loaded.
PbLoad ==
    /\ pbStatus = "called"
    /\ \E env \in BundleEnvs, code \in {N_avi, N_xxx} :
          /\ transforms' = BundleTree(env.kids, env.acc)
          /\ sprites' = SpritesOf(SelectSeq(SpriteNames,
                LAMBDA n : n \in EnvNames(env) \ env.disk.no_sprite))
          /\ pngs' = PngsOf(code, SelectSeq(SpriteNames,
                LAMBDA n : n \in EnvNames(env) \ env.disk.no_png))
          /\ char_code' = code
          /\ body_params' = env.body_params
    /\ pbStatus' = "loaded"
    /\ UNCHANGED <<mainVars, stepVars, sprite_rects, groups, add_parts,
                   png_cache, body_index, variants, saved, portraits,
                   bundle_log, rbVars>>

\* Lines 632-635: the except clause of main logs the error of the bundle in
\* hand, and the loop goes on.
CpExcept ==
    /\ log' = Append(log, MainLine("ERROR in", bundle_files[path_i]))
    /\ path_i' = path_i + 1
    /\ mainStatus' = "loop"
    /\ PbLocalsGone
    /\ UNCHANGED <<program, opts, bundle_files, stepVars, png_cache, rbVars>>

\* Line 369: UnityPy.load raises on a file it cannot read.
PbLoadError ==
    /\ pbStatus = "called"
    /\ CpExcept

\* Lines 375-394, 460-462: the rectangles; without body parameters the
\* bundle is skipped, else the groups and the accessories are derived.
PbDerive ==
    /\ pbStatus = "loaded"
    /\ sprite_rects' = LoadSpriteRects
    /\ IF body_params = <<>>
       THEN /\ bundle_log' = Append(bundle_log,
                                    BodyLine("No bodyParameters found", 0, <<>>, 0))
            /\ pbStatus' = "return"
            /\ UNCHANGED <<groups, add_parts>>
       ELSE /\ groups' = DeriveGroups(transforms, body_params)
            /\ add_parts' = DeriveAddParts
            /\ pbStatus' = "bodies"
            /\ UNCHANGED bundle_log
    /\ saved' = 0
    /\ body_index' = 0
    /\ UNCHANGED <<mainVars, stepVars, transforms, sprites, body_params,
                   char_code, pngs, png_cache, variants, portraits, rbVars>>

\* Lines 468-561: one body of one group.  The "continue" of line 498 leaves
\* a body without expressions before the log call of line 561.
PbBody ==
    /\ pbStatus = "bodies"
    /\ body_index < Len(FlatBodies(groups, 1))
    /\ body_index' = body_index + 1
    /\ LET cur == FlatBodies(groups, 1)[body_index + 1]
           group == groups[cur.gi]
           canvas_rect == CanvasForBody(cur.body, group)
           vs == BuildVariants(cur.body)
           new == BodyPortraits(body_index + 1, cur, vs, group, canvas_rect)
       IN  IF cur.body \notin DOMAIN sprite_rects
           THEN /\ bundle_log' = Append(bundle_log,
                       BodyLine("skipped (no rect)", body_index + 1, cur.body, 0))
                /\ UNCHANGED <<variants, saved, portraits, png_cache>>
           ELSE IF (IF canvas_rect = <<>> THEN TRUE
                    ELSE canvas_rect[3] <= 0 \/ canvas_rect[4] <= 0)
           THEN /\ bundle_log' = Append(bundle_log,
                       BodyLine("skipped (no canvas)", body_index + 1, cur.body, 0))
                /\ UNCHANGED <<variants, saved, portraits, png_cache>>
           ELSE /\ variants' = vs
                /\ portraits' = portraits \cup new
                /\ saved' = saved + Cardinality(new)
                /\ png_cache' = PngCacheAfter(char_code,
                       UNION {{p.layers[i] : i \in 1..Len(p.layers)} : p \in new})
                /\ bundle_log' =
                       IF DOMAIN group.eyes # {} \/ DOMAIN group.mouths # {}
                       THEN Append(bundle_log,
                                BodyLine("portrait(s)", body_index + 1,
                                         cur.body, Cardinality(new)))
                       ELSE bundle_log
    /\ UNCHANGED <<mainVars, stepVars, bundleVars, char_code, pngs, pbStatus,
                   rbVars>>

\* Lines 454-458: img.save raises (the disk is full, the directory cannot
\* be written) while a body is being dealt with.
PbSaveError ==
    /\ pbStatus = "bodies"
    /\ body_index < Len(FlatBodies(groups, 1))
    /\ CpExcept

\* Line 563: the total is logged.
PbFinish ==
    /\ pbStatus = "bodies"
    /\ body_index = Len(FlatBodies(groups, 1))
    /\ bundle_log' = Append(bundle_log, BodyLine("total saved", 0, <<>>, saved))
    /\ pbStatus' = "return"
    /\ UNCHANGED <<mainVars, stepVars, bundleVars, char_code, pngs, png_cache,
                   body_index, variants, saved, portraits, rbVars>>

\* process_bundle returns to the loop of main.
PbReturn ==
    /\ pbStatus = "return"
    /\ path_i' = path_i + 1
    /\ mainStatus' = "loop"
    /\ PbLocalsGone
    /\ UNCHANGED <<program, opts, bundle_files, log, stepVars, png_cache,
                   rbVars>>

\* Lines 637-638: the loop is over.
CpMainDone ==
    /\ program = "composite_portraits"
    /\ mainStatus = "loop"
    /\ path_i > Len(bundle_files)
    /\ log' = Append(log, MainLine("Done.", <<>>))
    /\ mainStatus' = "done"
    /\ UNCHANGED <<program, opts, bundle_files, path_i, stepVars, bundleVars,
                   pbVars, rbVars>>

(***************************************************************************)
(* The reconstructor: process_bundle and main                              *)
(* (reconstruct_sprites.py 173-279).                                       *)
(***************************************************************************)
\* Bounds: the number of Sprite objects of a bundle the reconstructor reads.
MaxSprites == 2

N_e_n1_spaced == <<"e", " ", "n", "o", "m", "/", "n", "1">>

\* The Sprite objects of the model: the dice atlas sprite, one without
\* vertices, one whose texture is not in the bundle, one on which
\* reconstruct_sprite raises, and two sound ones.
SpriteKinds ==
    {[m_Name |-> N_dice, vertex_count |-> 4, texture |-> 7, fails |-> FALSE],
     [m_Name |-> N_junk, vertex_count |-> 0, texture |-> 7, fails |-> FALSE],
     [m_Name |-> N_b1, vertex_count |-> 4, texture |-> 9, fails |-> FALSE],
     [m_Name |-> N_side, vertex_count |-> 4, texture |-> 7, fails |-> TRUE],
     [m_Name |-> N_base, vertex_count |-> 4, texture |-> 7, fails |-> FALSE],
     [m_Name |-> N_e_n1_spaced, vertex_count |-> 8, texture |-> 7,
      fails |-> FALSE]}

\* What the compositor's variables are while the reconstructor runs.
notRb == <<stepVars, transforms, sprite_rects, body_params, groups, add_parts,
           pngs, png_cache, pbStatus, body_index, variants, saved, portraits>>

RbLocalsGone ==
    /\ sprites' = <<>>
    /\ char_code' = <<>>
    /\ bundle_log' = <<>>
    /\ textures' = <<>>
    /\ rbIdx' = 0
    /\ rbStatus' = "idle"
    /\ rs_saved' = 0
    /\ skipped' = 0
    /\ out_files' = {}

\* Lines 243-274 of main, run without a character argument.
RsMainStart ==
    /\ program = "reconstruct_sprites"
    /\ mainStatus = "start"
    /\ log' = <<MainLine("Processing", <<>>)>>
    /\ path_i' = 1
    /\ mainStatus' = "loop"
    /\ UNCHANGED <<program, opts, bundle_files, stepVars, bundleVars, pbVars,
                   rbVars>>

\* Lines 275-277: the next path is printed and process_bundle is called.
RsMainBundle ==
    /\ program = "reconstruct_sprites"
    /\ mainStatus = "loop"
    /\ path_i <= Len(bundle_files)
    /\ log' = Append(log, MainLine("...", bundle_files[path_i]))
    /\ mainStatus' = "bundle"
    /\ rbStatus' = "called"
    /\ UNCHANGED <<program, opts, bundle_files, path_i, stepVars, bundleVars,
                   pbVars, textures, rbIdx, rs_saved, skipped, out_files>>

\* Lines 174-193: the bundle is loaded and its textures decoded; a bundle
\* without textures is skipped.
RbLoad ==
    /\ rbStatus = "called"
    /\ \E ss \in NameLists(SpriteKinds, MaxSprites),
          tx \in {<<>>, [pid \in {7} |-> "RGBA"]},
          code \in {N_avi, N_xxx} :
          /\ sprites' = ss
          /\ textures' = tx
          /\ char_code' = code
          /\ IF tx = <<>>
             THEN /\ bundle_log' = <<BodyLine("No textures found", 0, <<>>, 0)>>
                  /\ rbStatus' = "return"
             ELSE /\ bundle_log' = <<>>
                  /\ rbStatus' = "sprites"
    /\ rs_saved' = 0
    /\ skipped' = 0
    /\ rbIdx' = 1
    /\ out_files' = {}
    /\ UNCHANGED <<mainVars, notRb>>

\* An exception leaves process_bundle and, nothing in main catching it,
\* main: the interpreter prints the traceback and the run is over.
RsUncaught ==
    /\ mainStatus' = "Traceback"
    /\ log' = Append(log, MainLine("Traceback", bundle_files[path_i]))
    /\ RbLocalsGone
    /\ UNCHANGED <<program, opts, bundle_files, path_i, notRb>>

\* Line 175: UnityPy.load raises on a file it cannot read.
RbLoadError ==
    /\ rbStatus = "called"
    /\ RsUncaught

\* A mutant of NextSprite: a sprite that is skipped ends the loop.
NextSpriteBreak(i, skip) == IF skip THEN Len(sprites) + 1 ELSE i + 1

\* Lines 203, 209, 216, 223, 227: "continue", or the end of the loop body,
\* takes the loop to the next Sprite object.
NextSprite(i, skip) == i + 1

\* Lines 194-227: one Sprite object is skipped or reconstructed and saved.
RbSprite ==
    /\ rbStatus = "sprites"
    /\ rbIdx <= Len(sprites)
    /\ LET d == sprites[rbIdx] IN
       IF \/ IsDiceName(d.m_Name)
          \/ d.vertex_count = 0
          \/ d.texture \notin DOMAIN textures
          \/ d.fails
       THEN /\ skipped' = skipped + 1
            /\ UNCHANGED <<rs_saved, out_files>>
       ELSE /\ rs_saved' = rs_saved + 1
            /\ out_files' = out_files \cup {PngPath(char_code, d.m_Name)}
            /\ UNCHANGED skipped
    /\ rbIdx' = NextSprite(rbIdx, skipped' # skipped)
    /\ UNCHANGED <<mainVars, notRb, sprites, char_code, bundle_log, textures,
                   rbStatus>>

\* Line 226: img.save raises (the disk is full) outside the try of 218-223.
RbSaveError ==
    /\ rbStatus = "sprites"
    /\ rbIdx <= Len(sprites)
    /\ RsUncaught

\* Line 229: the counts are printed.
RbFinish ==
    /\ rbStatus = "sprites"
    /\ rbIdx > Len(sprites)
    /\ bundle_log' = Append(bundle_log,
                            BodyLine("saved, skipped", 0, <<>>, rs_saved))
    /\ rbStatus' = "return"
    /\ UNCHANGED <<mainVars, notRb, sprites, char_code, textures, rbIdx,
                   rs_saved, skipped, out_files>>

\* process_bundle returns to the loop of main.
RbReturn ==
    /\ rbStatus = "return"
    /\ path_i' = path_i + 1
    /\ mainStatus' = "loop"
    /\ RbLocalsGone
    /\ UNCHANGED <<program, opts, bundle_files, log, notRb>>

\* Line 279: the loop is over.
RsMainDone ==
    /\ program = "reconstruct_sprites"
    /\ mainStatus = "loop"
    /\ path_i > Len(bundle_files)
    /\ log' = Append(log, MainLine("Done.", <<>>))
    /\ mainStatus' = "done"
    /\ UNCHANGED <<program, opts, bundle_files, path_i, stepVars, bundleVars,
                   pbVars, rbVars>>

(***************************************************************************)
(* A run of one of the two scripts over the bundles directory, which is    *)
(* empty or holds MaxBundles files.                                        *)
(***************************************************************************)
Init ==
    /\ program \in {"composite_portraits", "reconstruct_sprites"}
    /\ opts \in [rev : BOOLEAN, extra : BOOLEAN, blush : BOOLEAN]
    /\ program = "reconstruct_sprites" =>
          opts = [rev |-> FALSE, extra |-> FALSE, blush |-> FALSE]
    /\ bundle_files \in {[i \in 1..n |-> BundleName(i)] : n \in {0, MaxBundles}}
    /\ path_i = 0
    /\ mainStatus = "start"
    /\ log = <<>>
    /\ transforms = <<>>
    /\ WorldIdle
    /\ GroupsIdle
    /\ RectsIdle
    /\ AddPartsIdle
    /\ PbIdle
    /\ RbIdle
    /\ FramesIdle
    /\ SelectIdle
    /\ PathsIdle
    /\ QuadsIdle

Next ==
    \/ CpMainStart
    \/ CpMainBundle
    \/ PbLoad
    \/ PbLoadError
    \/ PbDerive
    \/ PbBody
    \/ PbSaveError
    \/ PbFinish
    \/ PbReturn
    \/ CpMainDone
    \/ RsMainStart
    \/ RsMainBundle
    \/ RbLoad
    \/ RbLoadError
    \/ RbSprite
    \/ RbSaveError
    \/ RbFinish
    \/ RbReturn
    \/ RsMainDone

Spec == Init /\ [][Next]_vars

(***************************************************************************)
(* Claims about the portraits of one bundle.                               *)
(***************************************************************************)
N_e_nom == <<"e", "_", "n", "o", "m">>
N_m_nom == <<"m", "_", "n", "o", "m">>
N_nom == <<"n", "o", "m">>

\* c is the core of base as the specification words it: what follows the
\* two-character prefix, less one trailing "_" and lowercase letter if the
\* name ends in one.
IsCoreOf(c, base) ==
    LET tag == SubSeq(base, 3, Len(base)) IN
    IF \E l \in Lower : EndsWith(tag, <<"_", l>>)
    THEN \E l \in Lower : tag = c \o <<"_", l>>
    ELSE tag = c

SameCore(e_base, m_base) ==
    \E k \in 0..Len(e_base) :
        /\ IsCoreOf(SubSeq(e_base, 3, k), e_base)
        /\ IsCoreOf(SubSeq(e_base, 3, k), m_base)

LayerNames(p) == {p.layers[i] : i \in 1..Len(p.layers)}

\* C6: expression_core gives "nom" for e_nom, e_nom_s and e_nom_j and for
\* m_nom_i (whose unique part is "i"), and in every portrait saved, every
\* eye sprite and every mouth sprite among the layers have bases of the same
\* core.
C6_PairsShareCore ==
    /\ ExpressionCore(N_e_nom) = N_nom
    /\ ExpressionCore(N_e_nom \o <<"_", "s">>) = N_nom
    /\ ExpressionCore(N_e_nom \o <<"_", "j">>) = N_nom
    /\ ExpressionCore(N_m_nom \o <<"_", "i">>) = N_nom
    /\ ExprUnique(N_m_nom \o <<"_", "i">>, N_nom) = <<"i">>
    /\ \A p \in portraits :
          \A e \in LayerNames(p), m \in LayerNames(p) :
             (ParseEyeName(e) # <<>> /\ ParseMouthName(m) # <<>>) =>
                SameCore(ParseEyeName(e)[1], ParseMouthName(m)[1])

\* C6 witness: a portrait pairs e_nom_s with m_nom_i in a group that also
\* has the mouth base m_sml, which no eye base matches.
C6_Witness ==
    \E p \in portraits :
        /\ p.e_base = N_e_nom \o <<"_", "s">>
        /\ p.m_base = N_m_nom \o <<"_", "i">>
        /\ <<"m", "_", "s", "m", "l">> \in DOMAIN groups[p.gi].mouths
        /\ {N_e_nom_s_n1, N_m_nom_i_2} \subseteq LayerNames(p)

\* The bodies of the groups process_bundle goes through.
BundleBodies ==
    {FlatBodies(groups, 1)[i].body : i \in 1..Len(FlatBodies(groups, 1))}

HasMirrored(body) ==
    body \in (DOMAIN add_parts) \ {N_cheek} /\ add_parts[body].addrev # <<>>
HasExtras(body) ==
    body \in (DOMAIN add_parts) \ {N_cheek} /\ add_parts[body].extras # <<>>
HasCheek(body) ==
    /\ N_cheek \in DOMAIN add_parts
    /\ add_parts[N_cheek] # <<>>
    /\ body = N_base \/ \E c \in Digit \cup {"x"} : body = <<"b", c>>

AxisProduct(body) ==
    (IF opts.rev /\ HasMirrored(body) THEN 2 ELSE 1)
    * (IF opts.extra /\ HasExtras(body) THEN 2 ELSE 1)
    * (IF opts.blush /\ HasCheek(body) THEN 2 ELSE 1)

\* The bodies process_bundle has composited: those gone through that have
\* a rectangle and a canvas of positive area (lines 470-477).
DoneBodies ==
    {n \in 1..body_index :
        LET cur == FlatBodies(groups, 1)[n]
            canvas_rect == CanvasForBody(cur.body, groups[cur.gi])
        IN  /\ cur.body \in DOMAIN sprite_rects
            /\ canvas_rect # <<>>
            /\ canvas_rect[3] > 0
            /\ canvas_rect[4] > 0}

\* The body the last step of process_bundle built the variants of.
VariantsBody ==
    IF pbStatus \in {"bodies", "return"} /\ DoneBodies # {}
    THEN <<FlatBodies(groups, 1)[Max(DoneBodies)].body>> ELSE <<>>

\* C7: for every body of the bundle build_variants returns as many variants
\* as the product of the three axes (2 for the accessories iff --rev and a
\* mirrored accessory, 2 for the extras iff --extra and numbered extras, 2
\* for the cheek iff --blush, a cheek list and a base-family body); that is 8
\* with everything present and on, and with no flag just the standard
\* variant.
C7_VariantCountIsAxisProduct ==
    pbStatus = "bodies" =>
        /\ \A body \in BundleBodies :
              /\ Len(BuildVariants(body)) = AxisProduct(body)
              /\ (opts.rev /\ opts.extra /\ opts.blush /\ HasMirrored(body)
                  /\ HasExtras(body) /\ HasCheek(body)) =>
                    Len(BuildVariants(body)) = 8
              /\ (~opts.rev /\ ~opts.extra /\ ~opts.blush) =>
                    /\ Len(BuildVariants(body)) = 1
                    /\ BuildVariants(body)[1].subdir = <<>>
                    /\ ~BuildVariants(body)[1].flip
        /\ VariantsBody # <<>> => Len(variants) = AxisProduct(VariantsBody[1])

\* C7 witness: with all flags on, process_bundle has built 8 variants for
\* "base" and then 2 for "side", which has a mirrored accessory but neither
\* extras nor, outside the base family, the cheek.
C7_Witness ==
    /\ pbStatus = "bodies"
    /\ opts = [rev |-> TRUE, extra |-> TRUE, blush |-> TRUE]
    /\ VariantsBody = <<N_side>>
    /\ Len(variants) = 2
    /\ Len(BuildVariants(N_base)) = 8
    /\ HasCheek(N_base)
    /\ \E p \in portraits : p.body = N_base /\ p.v = 8

\* C8: all the portraits process_bundle saves for one body name have the
\* same canvas width and height.
C8_OneCanvasPerBodyName ==
    \A p \in portraits, q \in portraits :
        p.body = q.body => p.image.size = q.image.size

\* Within one body of one group the canvas is one and the same.
C8_OneCanvasPerGroupBody ==
    \A p \in portraits, q \in portraits :
        p.body_index = q.body_index => p.image.size = q.image.size

\* sub occurs in s.
IsInfix(sub, s) ==
    \E i \in 0..(Len(s) - Len(sub)) : SubSeq(s, i + 1, i + Len(sub)) = sub

\* The sum of f over S.
RECURSIVE SumOver(_, _)
SumOver(S, f) ==
    IF S = {} THEN 0
    ELSE LET x == CHOOSE x \in S : TRUE IN f[x] + SumOver(S \ {x}, f)

\* The number of frames of the bases of exprs whose core is core.
FramesOfCore(exprs, core) ==
    SumOver({b \in DOMAIN exprs : ExpressionCore(b) = core},
            [b \in DOMAIN exprs |-> Len(exprs[b])])

\* The paired portraits the claim expects of the n-th body.
ExpectedPaired(n) ==
    LET cur == FlatBodies(groups, 1)[n]
        eyes == groups[cur.gi].eyes
        mouths == groups[cur.gi].mouths
        cores == {ExpressionCore(b) : b \in DOMAIN eyes}
                 \cap {ExpressionCore(b) : b \in DOMAIN mouths}
    IN  Len(BuildVariants(cur.body))
        * SumOver(cores, [c \in cores |->
                            FramesOfCore(eyes, c) * FramesOfCore(mouths, c)])

\* The n-th body has a rectangle and a canvas of positive area.
BodyDrawable(n) ==
    LET cur == FlatBodies(groups, 1)[n] IN
    /\ cur.body \in DOMAIN sprite_rects
    /\ CanvasForBody(cur.body, groups[cur.gi])[3] > 0
    /\ CanvasForBody(cur.body, groups[cur.gi])[4] > 0

\* The bundle of the example: one body, the eye frames n1 and f0, the mouth
\* frames 0 and 1 of the same core, one standard accessory, no flag.
ExampleBundle ==
    /\ TopKids = <<N_base, N_e_nom_n1, N_e_nom_f0, N_m_nom_0, N_m_nom_1,
                   N_add_parts>>
    /\ add_parts = (N_cheek :> <<>>)
                   @@ (N_base :> [add |-> <<N_base_add>>, addrev |-> <<>>,
                                  extras |-> <<>>])
    /\ opts = [rev |-> FALSE, extra |-> FALSE, blush |-> FALSE]
    /\ char_code # N_xxx
    /\ N_base \in DOMAIN sprite_rects

\* C9: for every body process_bundle has dealt with that has a rectangle and
\* a canvas of positive area, the paired portraits saved are |variants| times
\* the sum over the cores present among the eyes and the mouths of (eye
\* frames of the core) x (mouth frames of the core), and no body-only
\* portrait is saved when the group has expressions and the character is not
\* "xxx"; the example bundle gives exactly 4 portraits, each file name with
\* the body name and both frame tags in it.
C9_PairedPortraitCount ==
    pbStatus = "bodies" =>
        /\ \A n \in 1..body_index :
              BodyDrawable(n) =>
                 LET cur == FlatBodies(groups, 1)[n]
                     mine == {p \in portraits : p.body_index = n}
                 IN  /\ Cardinality({p \in mine : p.kind = "pair"})
                          = ExpectedPaired(n)
                     /\ (char_code # N_xxx
                         /\ (DOMAIN groups[cur.gi].eyes # {}
                             \/ DOMAIN groups[cur.gi].mouths # {})) =>
                           {p \in mine : p.kind = "body"} = {}
        /\ (ExampleBundle /\ body_index = 1) =>
              /\ Cardinality(portraits) = 4
              /\ saved = 4
              /\ \A p \in portraits :
                    /\ p.kind = "pair"
                    /\ IsInfix(N_base, p.fname)
                    /\ IsInfix(groups[1].eyes[p.e_base][p.e_i], p.fname)
                    /\ IsInfix(groups[1].mouths[p.m_base][p.m_i], p.fname)
                    /\ p.layers = <<N_base,
                                    Under(p.e_base, groups[1].eyes[p.e_base][p.e_i]),
                                    Under(p.m_base, groups[1].mouths[p.m_base][p.m_i]),
                                    N_base_add>>
              /\ {p.fname : p \in portraits}
                   = {Under(Under(Under(N_base, N_nom), <<"e", "_">> \o ef),
                            <<"m", "_">> \o mf) \o DotPng :
                        ef \in {<<"n", "1">>, <<"f", "0">>},
                        mf \in {<<"0">>, <<"1">>}}

\* C9 witness: process_bundle has saved the 4 portraits of the example.
C9_Witness ==
    /\ pbStatus = "bodies"
    /\ ExampleBundle
    /\ body_index = 1
    /\ Cardinality(portraits) = 4

\* The run is over: main has returned or has died of an exception.
RunOver == mainStatus \in {"done", "Traceback"}

\* C10: when a run of either script is over, every bundle of bundle_files
\* has been handed to process_bundle and the last line written is "Done.",
\* whatever exception a bundle raised; and an exception is logged as the
\* error of its bundle.
C10_RunSurvivesBundleError ==
    RunOver =>
        /\ log[Len(log)].line = "Done."
        /\ \A i \in 1..Len(bundle_files) :
              \E k \in 1..Len(log) :
                 log[k].line = "..." /\ log[k].bname = bundle_files[i]
        /\ \A k \in 1..Len(log) : log[k].line # "Traceback"

\* What C10 says holds of the compositor alone.
C10_CompositorSurvives ==
    program = "composite_portraits" => C10_RunSurvivesBundleError

(***************************************************************************)
(* Claims about the image cache and composite_portrait.                    *)
(***************************************************************************)
\* What load_png finds on the disk for a path (lines 338-342).
DiskImage(disk, path) == IF path \in DOMAIN disk THEN disk[path] ELSE NoImage

\* process_bundle is running.
InBundle == pbStatus # "idle"

\* C11: the cache is empty when process_bundle starts; while the bundle is
\* processed an entry, once made, stays as it is (so its path is not opened
\* again, and a path recorded as missing stays missing); and every entry is
\* what the disk holds for the bundle in hand, never what an earlier bundle
\* left.
C11_CachePerBundle ==
    [][/\ (~InBundle /\ InBundle') => png_cache' = <<>>
       /\ (InBundle /\ InBundle') =>
             \A path \in DOMAIN png_cache :
                 /\ path \in DOMAIN png_cache'
                 /\ png_cache'[path] = png_cache[path]
       /\ InBundle' =>
             \A path \in DOMAIN png_cache' :
                 png_cache'[path] = DiskImage(pngs', path)]_vars

\* C11 witness: the second bundle, after the first one failed, has cached an
\* image and a missing path.
C11_Witness ==
    /\ path_i = 2
    /\ pbStatus = "bodies"
    /\ \E i \in 1..Len(log) : log[i].line = "ERROR in"
    /\ \E path \in DOMAIN png_cache : png_cache[path] = NoImage
    /\ \E path \in DOMAIN png_cache : png_cache[path] # NoImage

\* The canvas of the body a portrait was made for.
CanvasOf(p) == CanvasForBody(p.body, groups[p.gi])

\* The layer has both a reconstructed image and a rectangle.
LayerKnown(name) ==
    /\ DiskImage(pngs, PngPath(char_code, name)) # NoImage
    /\ name \in DOMAIN sprite_rects

\* The pixel rectangle of the layer at its canvas offset meets
\* [0, cw) x [0, ch).
MeetsCanvas(name, canvas_rect) ==
    LET d   == WorldToCanvas(sprite_rects[name], canvas_rect)
        img == DiskImage(pngs, PngPath(char_code, name))
    IN  /\ d[1] < canvas_rect[3]
        /\ d[1] + img.width > 0
        /\ d[2] < canvas_rect[4]
        /\ d[2] + img.height > 0

\* The names of what composite_portrait pasted, bottom layer first.
DrawnNames(p) == [i \in 1..Len(p.image.drawn) |-> p.image.drawn[i].name]

\* C12: of the layers of a portrait that have an image and a rectangle,
\* those that do not meet the canvas are not pasted, and those that meet it
\* are pasted, in the order of the layer list.
C12_OutsideLayersSkipped ==
    \A p \in portraits :
        DrawnNames(p) =
            SelectSeq(p.layers,
                      LAMBDA n : LayerKnown(n) /\ MeetsCanvas(n, CanvasOf(p)))

\* The layers that meet the canvas are all pasted, in the order of the layer
\* list (the part of C12 that holds).
C12_MeetingLayersPasted ==
    \A p \in portraits :
        SelectSeq(DrawnNames(p), LAMBDA n : MeetsCanvas(n, CanvasOf(p)))
            = SelectSeq(p.layers,
                        LAMBDA n : LayerKnown(n) /\ MeetsCanvas(n, CanvasOf(p)))

\* The layer lists process_bundle hands to composite_portrait for a body
\* that has a rectangle and a canvas (lines 488-559), whatever is on disk.
ExpectedLayerLists(body, group, vs) ==
    LET has_exprs == DOMAIN group.eyes # {} \/ DOMAIN group.mouths # {}
        front ==
            (IF char_code = N_xxx \/ ~has_exprs THEN {<<body>>} ELSE {})
            \cup (IF DOMAIN group.eyes = {}
                  THEN UNION {{<<body, Under(m, group.mouths[m][j])>> :
                                  j \in 1..Len(group.mouths[m])} :
                              m \in DOMAIN group.mouths}
                  ELSE {})
            \cup UNION {UNION {{<<body, Under(e, group.eyes[e][i]),
                                  Under(m, group.mouths[m][j])>> :
                                   i \in 1..Len(group.eyes[e]),
                                   j \in 1..Len(group.mouths[m])} :
                               m \in {x \in DOMAIN group.mouths :
                                        ExpressionCore(x) = ExpressionCore(e)}} :
                        e \in DOMAIN group.eyes}
    IN  {f \o vs[v].layers : f \in front, v \in 1..Len(vs)}

\* C13: a layer without a rectangle or without an image on disk is in no
\* composite; the layers that have both and meet the canvas are pasted in
\* the order of the layer list; and every portrait of a body is produced
\* and saved all the same.
C13_MissingLayersDropped ==
    /\ \A p \in portraits :
          /\ \A i \in 1..Len(p.image.drawn) : LayerKnown(p.image.drawn[i].name)
          /\ DrawnNames(p) =
                SelectSeq(p.layers,
                          LAMBDA n : \E i \in 1..Len(p.image.drawn) :
                                        p.image.drawn[i].name = n)
          /\ \A i \in 1..Len(p.layers) :
                (LayerKnown(p.layers[i]) /\ MeetsCanvas(p.layers[i], CanvasOf(p)))
                   => \E k \in 1..Len(p.image.drawn) :
                         p.image.drawn[k].name = p.layers[i]
    /\ \A n \in DoneBodies :
          LET cur == FlatBodies(groups, 1)[n] IN
          \A ls \in ExpectedLayerLists(cur.body, groups[cur.gi],
                                       BuildVariants(cur.body)) :
             \E p \in portraits : p.body_index = n /\ p.layers = ls

\* C13 witness: a saved portrait of three layers whose mouth has no
\* rectangle, and one whose mouth has no image; body and eye are pasted.
C13_Witness ==
    /\ \E p \in portraits :
          /\ Len(p.layers) >= 3
          /\ p.layers[3] \notin DOMAIN sprite_rects
          /\ Len(p.image.drawn) >= 2
    /\ \E p \in portraits :
          /\ Len(p.layers) >= 3
          /\ DiskImage(pngs, PngPath(char_code, p.layers[3])) = NoImage
          /\ p.layers[3] \in DOMAIN sprite_rects
          /\ Len(p.image.drawn) >= 2

(***************************************************************************)
(* Claims about which portraits a body gets.                               *)
(***************************************************************************)
\* The saved files "{body}.png" of the body of index n.
BodyFiles(n) ==
    {p \in portraits : /\ p.body_index = n
                       /\ p.fname = FlatBodies(groups, 1)[n].body \o DotPng}

\* C14: a body with a rectangle and a canvas gets "{body}.png", once for
\* each variant and made of the body and the variant's layers, exactly when
\* its group has no eyes and no mouths or the character code is "xxx";
\* otherwise it gets none.
C14_BodyOnlyIffNoExprsOrXxx ==
    \A n \in DoneBodies :
        LET cur   == FlatBodies(groups, 1)[n]
            group == groups[cur.gi]
            vs    == BuildVariants(cur.body)
        IN  IF char_code = N_xxx
               \/ (DOMAIN group.eyes = {} /\ DOMAIN group.mouths = {})
            THEN /\ Cardinality(BodyFiles(n)) = Len(vs)
                 /\ \A v \in 1..Len(vs) :
                       \E p \in BodyFiles(n) :
                           /\ p.subdir = vs[v].subdir
                           /\ p.layers = <<cur.body>> \o vs[v].layers
            ELSE BodyFiles(n) = {}

\* C14 witness: the code is "xxx" and a body with eyes and mouths has its
\* body-only file in two variants, next to its paired portraits.
C14_Witness ==
    /\ char_code = N_xxx
    /\ \E n \in DoneBodies :
          LET cur == FlatBodies(groups, 1)[n] IN
          /\ DOMAIN groups[cur.gi].eyes # {}
          /\ DOMAIN groups[cur.gi].mouths # {}
          /\ Cardinality(BodyFiles(n)) >= 2
          /\ \E p \in portraits : p.body_index = n /\ p \notin BodyFiles(n)

\* The name is that of an eye sprite: "e_...".
IsEyeLayer(name) == Len(name) >= 2 /\ name[1] = "e" /\ name[2] = "_"

\* C15: a body whose group has mouths and no eyes gets, for each variant
\* and each frame of each mouth base, exactly one portrait made of the body,
\* that mouth sprite and the variant's layers, and no portrait with an eye
\* layer.
C15_MouthOnlyPortraits ==
    \A n \in DoneBodies :
        LET cur   == FlatBodies(groups, 1)[n]
            group == groups[cur.gi]
            vs    == BuildVariants(cur.body)
        IN  (DOMAIN group.eyes = {} /\ DOMAIN group.mouths # {}) =>
               /\ \A m \in DOMAIN group.mouths :
                     \A j \in 1..Len(group.mouths[m]), v \in 1..Len(vs) :
                        Cardinality(
                            {p \in portraits :
                                /\ p.body_index = n
                                /\ p.subdir = vs[v].subdir
                                /\ p.layers = <<cur.body,
                                                Under(m, group.mouths[m][j])>>
                                               \o vs[v].layers}) = 1
               /\ \A p \in portraits :
                     p.body_index = n =>
                        \A i \in 1..Len(p.layers) : ~IsEyeLayer(p.layers[i])

\* C15 witness: a body without eyes has the portraits of two mouth frames,
\* each in two variants.
C15_Witness ==
    \E n \in DoneBodies :
        LET cur   == FlatBodies(groups, 1)[n]
            group == groups[cur.gi]
        IN  /\ DOMAIN group.eyes = {}
            /\ \E m \in DOMAIN group.mouths : Len(group.mouths[m]) >= 2
            /\ Len(BuildVariants(cur.body)) >= 2
            /\ Cardinality({p \in portraits : p.body_index = n}) >= 4

(***************************************************************************)
(* Claims about the loop of the reconstructor's process_bundle.            *)
(***************************************************************************)
\* The sprite cannot be reconstructed: a dice atlas sprite, no vertices, a
\* texture that was not decoded, or reconstruct_sprite raising.
Unreconstructable(d) ==
    \/ Len(d.m_Name) >= 5 /\ SubSeq(d.m_Name, 1, 5) = <<"d", "i", "c", "e", "_">>
    \/ d.vertex_count = 0
    \/ d.texture \notin DOMAIN textures
    \/ d.fails

\* The summary line of line 229 has been printed.
SummaryPrinted ==
    /\ rbStatus = "return"
    /\ bundle_log # <<>>
    /\ bundle_log[Len(bundle_log)].line = "saved, skipped"

\* C16: while the loop runs every Sprite object before the current one has
\* been counted, as skipped if it cannot be reconstructed and as saved if it
\* can; and when the summary is printed saved + skipped is the number of
\* Sprite objects of the bundle.
C16_SkipsDoNotStopLoop ==
    /\ rbStatus = "sprites" =>
          /\ rbIdx <= Len(sprites) + 1
          /\ skipped = Cardinality({i \in 1..(rbIdx - 1) :
                                       Unreconstructable(sprites[i])})
          /\ rs_saved = Cardinality({i \in 1..(rbIdx - 1) :
                                       ~Unreconstructable(sprites[i])})
    /\ SummaryPrinted =>
          /\ rs_saved + skipped = Len(sprites)
          /\ bundle_log[Len(bundle_log)].count = rs_saved
          /\ \A i \in 1..Len(sprites) :
                ~Unreconstructable(sprites[i]) =>
                    PngPath(char_code, sprites[i].m_Name) \in out_files

\* C16 witness: the summary is printed for a bundle whose first sprite made
\* reconstruct_sprite raise and whose second sprite was saved.
C16_Witness ==
    /\ SummaryPrinted
    /\ Len(sprites) = 2
    /\ sprites[1].fails
    /\ ~Unreconstructable(sprites[2])
    /\ rs_saved = 1
    /\ skipped = 1

(***************************************************************************)
(* Claims about the progress log of a bundle.                              *)
(***************************************************************************)
\* The per-body lines of the log of the bundle, in the order written.
BodyLines ==
    SelectSeq(bundle_log,
              LAMBDA l : l.line \in {"skipped (no rect)", "skipped (no canvas)",
                                     "portrait(s)"})

\* process_bundle has gone through every body and logged the total.
TotalLogged ==
    /\ pbStatus = "return"
    /\ bundle_log # <<>>
    /\ bundle_log[Len(bundle_log)].line = "total saved"

\* C17: when process_bundle has logged the total, the log has one per-body
\* line for every body of every group, the index running 1..total_bodies in
\* order, and the total is the sum of the counts of the per-body lines.
C17_OneLinePerBody ==
    TotalLogged =>
        /\ Len(BodyLines) = Len(FlatBodies(groups, 1))
        /\ \A i \in 1..Len(BodyLines) : BodyLines[i].index = i
        /\ bundle_log[Len(bundle_log)].count
              = SumOver(1..Len(BodyLines),
                        [i \in 1..Len(BodyLines) |-> BodyLines[i].count])

\* What holds of the log: the per-body lines are in the order of the bodies,
\* at most one for a body, none missing but those of the composited bodies
\* whose group has no expressions; and the total is the number of portraits
\* saved.
C17_LinesButForBareBodies ==
    TotalLogged =>
        /\ \A i \in 1..Len(BodyLines), j \in 1..Len(BodyLines) :
              i < j => BodyLines[i].index < BodyLines[j].index
        /\ \A n \in 1..Len(FlatBodies(groups, 1)) :
              LET group == groups[FlatBodies(groups, 1)[n].gi] IN
              (\E i \in 1..Len(BodyLines) : BodyLines[i].index = n)
                 <=> ~(n \in DoneBodies
                       /\ DOMAIN group.eyes = {} /\ DOMAIN group.mouths = {})
        /\ bundle_log[Len(bundle_log)].count = Cardinality(portraits)

(***************************************************************************)
(* best_eye_frame and best_mouth_frame on their own                        *)
(* (composite_portraits.py 319-330).                                       *)
(***************************************************************************)
\* Bounds: the length of the list of frame tags.
MaxFrames == 3

\* Frame tags: preferred eye tags, eye tags that are not preferred, mouth
\* tags of both sorts.
FrameTags ==
    {<<"n", "1">>, <<"f", "0">>, <<"b", "1">>, <<"n", "2">>, <<"x", "9">>,
     <<"1">>, <<"0">>, <<"2">>, <<"3">>}

notFrames == <<transforms, worldVars, groupVars, rectVars, addVars, mainVars,
               pbVars, rbVars, selVars, pathVars, quadVars>>

InitFrames ==
    /\ bf_frames \in NameLists(FrameTags, MaxFrames)
    /\ bf_best = <<>>
    /\ bfStatus = "idle"
    /\ transforms = <<>>
    /\ WorldIdle
    /\ GroupsIdle
    /\ RectsIdle
    /\ AddPartsIdle
    /\ program = "none"
    /\ opts = [rev |-> FALSE, extra |-> FALSE, blush |-> FALSE]
    /\ bundle_files = <<>>
    /\ path_i = 0
    /\ mainStatus = "idle"
    /\ log = <<>>
    /\ PbIdle
    /\ RbIdle
    /\ SelectIdle
    /\ PathsIdle
    /\ QuadsIdle

\* best_eye_frame(frames)
BfEye ==
    /\ bfStatus = "idle"
    /\ bf_best' = BestEyeFrame(bf_frames)
    /\ bfStatus' = "eye"
    /\ UNCHANGED <<bf_frames, notFrames>>

\* best_mouth_frame(frames)
BfMouth ==
    /\ bfStatus = "idle"
    /\ bf_best' = BestMouthFrame(bf_frames)
    /\ bfStatus' = "mouth"
    /\ UNCHANGED <<bf_frames, notFrames>>

NextFrames ==
    \/ BfEye
    \/ BfMouth

SpecFrames == InitFrames /\ [][NextFrames]_vars

\* The earliest entry of pref that occurs in frames; the first element of
\* frames when none occurs; nothing for the empty list.
EarliestPreferred(pref, frames) ==
    IF frames = <<>> THEN <<>>
    ELSE IF \E i \in 1..Len(pref), k \in 1..Len(frames) : frames[k] = pref[i]
    THEN pref[CHOOSE i \in 1..Len(pref) :
                 /\ \E k \in 1..Len(frames) : frames[k] = pref[i]
                 /\ \A j \in 1..(i - 1) :
                       \A k \in 1..Len(frames) : frames[k] # pref[j]]
    ELSE frames[1]

\* C18: best_eye_frame returns the earliest of n1, n0, f0, f1, b0, b1, n2
\* that is in the list and best_mouth_frame the earliest of 1, 0, 2, else
\* the first element of the list; the result is an element of the list, and
\* None for the empty list only.
C18_BestFrameIsEarliestPreferred ==
    /\ bfStatus = "eye" =>
          bf_best = EarliestPreferred(
                       << <<"n", "1">>, <<"n", "0">>, <<"f", "0">>, <<"f", "1">>,
                          <<"b", "0">>, <<"b", "1">>, <<"n", "2">> >>, bf_frames)
    /\ bfStatus = "mouth" =>
          bf_best = EarliestPreferred(<< <<"1">>, <<"0">>, <<"2">> >>, bf_frames)
    /\ bfStatus # "idle" =>
          /\ bf_frames # <<>> =>
                \E k \in 1..Len(bf_frames) : bf_frames[k] = bf_best
          /\ bf_best = <<>> <=> bf_frames = <<>>

\* C18 witness: of x9, b1, f0 the eye function picked f0, the preferred tag
\* that comes last in the list.
C18_Witness ==
    /\ bfStatus = "eye"
    /\ bf_frames = << <<"x", "9">>, <<"b", "1">>, <<"f", "0">> >>
    /\ bf_best = <<"f", "0">>

(***************************************************************************)
(* Claims about the variants of a body.                                    *)
(***************************************************************************)
\* The choices of optional tags a body offers: the mirrored accessory with
\* --rev and a mirrored list, the extras with --extra and numbered extras,
\* the cheek with --blush, a cheek list and a base-family body.
TagChoices(body) ==
    {c \in [rev : BOOLEAN, extra : BOOLEAN, blush : BOOLEAN] :
        /\ c.rev => (opts.rev /\ HasMirrored(body))
        /\ c.extra => (opts.extra /\ HasExtras(body))
        /\ c.blush => (opts.blush /\ HasCheek(body))}

\* The directory of a choice under the character's output root: the tags
\* joined by underscores in the order rev, extra, blush; "" is the root.
TagDirectory(c) ==
    CASE ~c.rev /\ ~c.extra /\ ~c.blush -> ""
      [] ~c.rev /\ ~c.extra /\ c.blush -> "blush"
      [] ~c.rev /\ c.extra /\ ~c.blush -> "extra"
      [] ~c.rev /\ c.extra /\ c.blush -> "extra_blush"
      [] c.rev /\ ~c.extra /\ ~c.blush -> "rev"
      [] c.rev /\ ~c.extra /\ c.blush -> "rev_blush"
      [] c.rev /\ c.extra /\ ~c.blush -> "rev_extra"
      [] c.rev /\ c.extra /\ c.blush -> "rev_extra_blush"

\* The accessory lists of a body: what derive_add_parts filed under it.
ListsOf(body) ==
    IF body \in (DOMAIN add_parts) \ {N_cheek} THEN add_parts[body]
    ELSE [add |-> <<>>, addrev |-> <<>>, extras |-> <<>>]

\* C19: the variants of a body are its choices of tags, one variant each;
\* the directory of a variant is the root with no tag and else the tags
\* joined in the order rev, extra, blush, so that no two variants share a
\* directory; a variant is flipped iff it has the mirrored accessory, and
\* then the mirrored list stands in the place of the standard one; every
\* saved portrait is flipped iff its directory is one with rev.
C19_VariantDirectoriesAndFlip ==
    pbStatus = "bodies" =>
        /\ \A body \in BundleBodies :
              LET vs == BuildVariants(body) IN
              /\ Len(vs) = Cardinality(TagChoices(body))
              /\ \A c \in TagChoices(body) :
                    \E v \in 1..Len(vs) :
                        /\ SubdirName(vs[v].subdir) = TagDirectory(c)
                        /\ vs[v].flip = c.rev
                        /\ vs[v].layers =
                              (IF c.rev THEN ListsOf(body).addrev
                               ELSE ListsOf(body).add)
                              \o (IF c.extra THEN ListsOf(body).extras ELSE <<>>)
                              \o (IF c.blush THEN add_parts[N_cheek] ELSE <<>>)
              /\ \A v \in 1..Len(vs), w \in 1..Len(vs) :
                    v # w => SubdirName(vs[v].subdir) # SubdirName(vs[w].subdir)
        /\ \A p \in portraits :
              p.flip <=> SubdirName(p.subdir) \in {"rev", "rev_blush", "rev_extra",
                                                   "rev_extra_blush"}

\* C19 witness: with all flags on, "base" has been saved in the root and in
\* rev_extra_blush, flipped there and not in the root.
C19_Witness ==
    /\ pbStatus = "bodies"
    /\ Len(BuildVariants(N_base)) = 8
    /\ \E p \in portraits :
          p.body = N_base /\ SubdirName(p.subdir) = "" /\ ~p.flip
    /\ \E p \in portraits :
          /\ p.body = N_base
          /\ SubdirName(p.subdir) = "rev_extra_blush"
          /\ p.flip
          /\ InList(p.layers, N_base_addrev)
          /\ ~InList(p.layers, N_base_add)

(***************************************************************************)
(* The character argument of main                                          *)
(* (composite_portraits.py 605-622, reconstruct_sprites.py 253-272).       *)
(***************************************************************************)
\* Bounds: the number of files in the bundles directory main selects from.
MaxFiles == 2

\* str.lower() on the letters the arguments of the model are made of.
ToLower(s) ==
    [i \in 1..Len(s) |->
        CASE s[i] = "A" -> "a"
          [] s[i] = "V" -> "v"
          [] s[i] = "I" -> "i"
          [] OTHER -> s[i]]

\* s.lstrip("a"): s without its leading "a" characters.
RECURSIVE LStripA(_)
LStripA(s) ==
    IF s # <<>> /\ Head(s) = "a" THEN LStripA(Tail(s)) ELSE s

\* The arguments: none, bundle numbers with and without "a" and zeros, and
\* character codes.
Characters ==
    {<<>>, <<"1">>, <<"0", "0", "1">>, <<"a", "0", "0", "1">>, <<"a", "1">>,
     <<"0", "1", "0">>, <<"1", "0">>, <<"2">>, N_avi, <<"A", "V", "I">>, N_xxx,
     <<"v", "i">>}

\* The names of the bundle files, sorted.
FileNames ==
    <<<<"a", "0", "0", "1">>, <<"a", "0", "0", "2">>, <<"a", "0", "1", "0">>>>

\* The directories: up to MaxFiles of the names, in sorted order, each
\* bundle with the character code get_char_code reads from it (the empty
\* string for None).
Directories ==
    UNION {{[i \in 1..Len(ns) |-> [bname |-> ns[i], code |-> cs[i]]] :
              cs \in [1..Len(ns) -> {N_avi, N_xxx, <<>>}]} :
           ns \in {x \in SubLists(FileNames) : Len(x) <= MaxFiles}}

notSelect == <<transforms, worldVars, groupVars, rectVars, addVars,
               opts, bundle_files, path_i, mainStatus, log, pbVars, rbVars,
               frameVars, pathVars, quadVars>>

InitSelect ==
    /\ program \in {"composite_portraits", "reconstruct_sprites"}
    /\ character \in Characters
    /\ all_files \in Directories
    /\ sel_files = <<>>
    /\ selIdx = 0
    /\ selStatus = "idle"
    /\ opts = [rev |-> FALSE, extra |-> FALSE, blush |-> FALSE]
    /\ bundle_files = <<>>
    /\ path_i = 0
    /\ mainStatus = "idle"
    /\ log = <<>>
    /\ transforms = <<>>
    /\ WorldIdle
    /\ GroupsIdle
    /\ RectsIdle
    /\ AddPartsIdle
    /\ PbIdle
    /\ RbIdle
    /\ FramesIdle
    /\ PathsIdle
    /\ QuadsIdle

\* composite_portraits.py 611, reconstruct_sprites.py 259-260:
\* bname.lstrip("a") == query.lstrip("a")
NameMatches(bname, query) == LStripA(bname) = LStripA(query)

\* Lines 605-607 / 253-255: a character was given; the loop starts.
SelStart ==
    /\ selStatus = "idle"
    /\ character # <<>>
    /\ sel_files' = <<>>
    /\ selIdx' = 1
    /\ selStatus' = "loop"
    /\ UNCHANGED <<program, character, all_files, notSelect>>

\* Lines 621-622 / 271-272: no character; bundle_files is all_files.
SelAll ==
    /\ selStatus = "idle"
    /\ character = <<>>
    /\ sel_files' = all_files
    /\ selStatus' = "selected"
    /\ UNCHANGED <<program, character, all_files, selIdx, notSelect>>

\* Lines 608-617 of the compositor: one path of all_files.
SelStepCp ==
    /\ program = "composite_portraits"
    /\ selStatus = "loop"
    /\ selIdx <= Len(all_files)
    /\ LET query == ToLower(character)
           f == all_files[selIdx]
       IN  sel_files' = IF NameMatches(f.bname, query) THEN Append(sel_files, f)
                        ELSE IF f.code = query THEN Append(sel_files, f)
                        ELSE sel_files
    /\ selIdx' = selIdx + 1
    /\ UNCHANGED <<program, character, all_files, selStatus, notSelect>>

\* Lines 256-267 of the reconstructor: one path of all_files.
SelStepRs ==
    /\ program = "reconstruct_sprites"
    /\ selStatus = "loop"
    /\ selIdx <= Len(all_files)
    /\ LET query == ToLower(character)
           f == all_files[selIdx]
           num == LStripA(f.bname)
       IN  sel_files' = IF num = LStripA(query) THEN Append(sel_files, f)
                        ELSE IF f.code = query THEN Append(sel_files, f)
                        ELSE sel_files
    /\ selIdx' = selIdx + 1
    /\ UNCHANGED <<program, character, all_files, selStatus, notSelect>>

\* Lines 618-620 / 268-270: the loop is over; without a match main returns.
SelDone ==
    /\ selStatus = "loop"
    /\ selIdx > Len(all_files)
    /\ selStatus' = IF sel_files = <<>> THEN "no match" ELSE "selected"
    /\ UNCHANGED <<program, character, all_files, sel_files, selIdx, notSelect>>

NextSelect ==
    \/ SelStart
    \/ SelAll
    \/ SelStepCp
    \/ SelStepRs
    \/ SelDone

SpecSelect == InitSelect /\ [][NextSelect]_vars

\* The number a bundle name or an argument names: the digits after the
\* leading "a", if any, and the leading zeros; nothing when what is left is
\* not a number.
BundleNumber(s) ==
    LET t == IF s # <<>> /\ Head(s) = "a" THEN Tail(s) ELSE s
        z == {i \in 1..Len(t) : t[i] # "0"}
    IN  IF t = <<>> \/ \E i \in 1..Len(t) : t[i] \notin Digit THEN <<"?">>
        ELSE IF z = {} THEN <<"0">>
        ELSE SubSeq(t, Min(z), Len(t))

\* The argument names the bundle: by its number, or by its character code.
Names(query, f) ==
    \/ BundleNumber(query) # <<"?">> /\ BundleNumber(query) = BundleNumber(f.bname)
    \/ query = f.code

\* main has settled bundle_files.
Selected == selStatus \in {"selected", "no match"}

\* C20: the bundles selected are those the argument names by number, with
\* or without the leading "a" ("001" and "1" both select "a001"), or by
\* character code, and no other; without an argument every file is
\* selected.
C20_SelectorMatchesNumberOrCode ==
    Selected =>
        sel_files = SelectSeq(all_files,
                        LAMBDA f : character = <<>>
                                   \/ Names(ToLower(character), f))

\* What holds of the selection: without an argument every file; no bundle
\* but one the argument names; every bundle whose code is the argument or
\* whose name is the argument, with the "a" or without it.
C20_SelectorWithZeros ==
    Selected =>
        /\ character = <<>> => sel_files = all_files
        /\ character # <<>> =>
              /\ \A i \in 1..Len(sel_files) :
                    /\ InList(all_files, sel_files[i])
                    /\ Names(ToLower(character), sel_files[i])
              /\ \A i \in 1..Len(all_files) :
                    (\/ all_files[i].code = ToLower(character)
                     \/ all_files[i].bname = ToLower(character)
                     \/ all_files[i].bname = <<"a">> \o ToLower(character))
                       => InList(sel_files, all_files[i])

(***************************************************************************)
(* Claims about the canvas of a body.                                      *)
(***************************************************************************)
\* The world rectangle of the layer lies inside the canvas rectangle.
InsideCanvas(name, canvas_rect) ==
    LET r == sprite_rects[name] IN
    /\ canvas_rect[1] <= r[1]
    /\ canvas_rect[2] <= r[2]
    /\ r[1] + r[3] <= canvas_rect[1] + canvas_rect[3]
    /\ r[2] + r[4] <= canvas_rect[2] + canvas_rect[4]

\* C22: in every saved portrait the world rectangle of every layer that has
\* one (the body, any eye frame, any mouth frame, the accessories, extras
\* and cheek layers of the variant) lies inside the canvas of the body.
C22_CanvasCoversEveryLayer ==
    \A p \in portraits :
        \A i \in 1..Len(p.layers) :
            p.layers[i] \in DOMAIN sprite_rects =>
                InsideCanvas(p.layers[i], CanvasOf(p))

\* What holds of the canvas: it covers the layers canvas_for_body gathers,
\* that is the body, the preferred frame of every eye and mouth base, the
\* accessories, the extras and the cheek.
C22_CanvasCoversPreferredFrames ==
    \A p \in portraits :
        \A n \in RelevantLayers(p.body, groups[p.gi]) \cap DOMAIN sprite_rects :
            InsideCanvas(n, CanvasOf(p))

\* The eyes and the mouths of the group have no core in common.
NoSharedCore(group) ==
    {ExpressionCore(e) : e \in DOMAIN group.eyes}
        \cap {ExpressionCore(m) : m \in DOMAIN group.mouths} = {}

\* C23: when the code is not "xxx", a composited body whose group has eyes
\* and either no mouths or no core shared by eyes and mouths has no saved
\* portrait at all, and its log line counts 0.
C23_EyesWithoutMatchGiveNothing ==
    char_code # N_xxx =>
        \A n \in DoneBodies :
            LET group == groups[FlatBodies(groups, 1)[n].gi] IN
            (DOMAIN group.eyes # {} /\ NoSharedCore(group)) =>
                /\ {p \in portraits : p.body_index = n} = {}
                /\ \A i \in 1..Len(bundle_log) :
                      (bundle_log[i].line = "portrait(s)"
                       /\ bundle_log[i].index = n) => bundle_log[i].count = 0

\* C23 witness: process_bundle is through with a bundle whose one body has a
\* rectangle, eyes of one core and mouths of another, and nothing was saved.
C23_Witness ==
    /\ pbStatus = "return"
    /\ char_code = N_avi
    /\ DoneBodies = {1}
    /\ DOMAIN groups[1].eyes # {}
    /\ DOMAIN groups[1].mouths # {}
    /\ NoSharedCore(groups[1])
    /\ saved = 0
    /\ \E i \in 1..Len(bundle_log) :
          bundle_log[i].line = "portrait(s)" /\ bundle_log[i].count = 0

(***************************************************************************)
(* The path of a sprite image in the two scripts                           *)
(* (reconstruct_sprites.py 174-179, 225-226; composite_portraits.py        *)
(* 333-335, 368-372).                                                      *)
(***************************************************************************)
\* os.path.splitext(name)[0]: name up to its last dot, unless nothing but
\* dots comes before that dot.
SplitExtRoot(name) ==
    LET dots == {i \in 1..Len(name) : name[i] = "."} IN
    IF dots = {} THEN name
    ELSE LET i == Max(dots) IN
         IF \A j \in 1..(i - 1) : name[j] = "." THEN name
         ELSE SubSeq(name, 1, i - 1)

\* reconstruct_sprites.py 174, 177: get_char_code(env) or bundle_name, the
\* bundle name being the file name without its extension.
RsCharCode(bundle) ==
    IF bundle.code # <<>> THEN bundle.code ELSE SplitExtRoot(bundle.bname)

\* composite_portraits.py 368, 371: get_char_code(env) or bundle_name, the
\* bundle name being the file name.
CpCharCode(bundle) ==
    IF bundle.code # <<>> THEN bundle.code ELSE bundle.bname

\* The bundle files: names with and without an extension, each with the
\* code of its dice atlas or none.
PathBundles ==
    [bname : {<<"a", "0", "0", "1">>,
              <<"a", "0", "0", "1", ".", "b", "u", "n", "d", "l", "e">>,
              <<"a", "0", "0", "2", ".", "v", "2", ".", "a", "b">>,
              <<".", "h", "i", "d", "d", "e", "n">>},
     code : {<<>>, N_avi, N_xxx}]

\* The sprite names: plain ones and ones with characters that are replaced.
PathSprites ==
    {N_base, N_b1, N_side, N_e_nom_n1, N_m_nom_0, N_base_add, N_e_n1_spaced,
     <<"a", "\\", "b">>, <<"a", "/", "b", " ", "c">>, <<"a", "_", "b">>}

notPaths == <<transforms, worldVars, groupVars, rectVars, addVars, mainVars,
              pbVars, rbVars, frameVars, selVars, quadVars>>

InitPaths ==
    /\ pp_bundle \in PathBundles
    /\ pp_sprite \in PathSprites
    /\ rs_path = <<>>
    /\ cp_path = <<>>
    /\ program = "none"
    /\ opts = [rev |-> FALSE, extra |-> FALSE, blush |-> FALSE]
    /\ bundle_files = <<>>
    /\ path_i = 0
    /\ mainStatus = "idle"
    /\ log = <<>>
    /\ transforms = <<>>
    /\ WorldIdle
    /\ GroupsIdle
    /\ RectsIdle
    /\ AddPartsIdle
    /\ PbIdle
    /\ RbIdle
    /\ FramesIdle
    /\ SelectIdle
    /\ QuadsIdle

\* reconstruct_sprites.py 225-226: the reconstructor saves the sprite.
PpSave ==
    /\ rs_path = <<>>
    /\ rs_path' = <<RsCharCode(pp_bundle), SafeName(pp_sprite)>>
    /\ UNCHANGED <<pp_bundle, pp_sprite, cp_path, notPaths>>

\* composite_portraits.py 334-335: load_png of the compositor, run on the
\* same bundle once the sprite is saved.
PpLoad ==
    /\ rs_path # <<>>
    /\ cp_path = <<>>
    /\ cp_path' = PngPath(CpCharCode(pp_bundle), pp_sprite)
    /\ UNCHANGED <<pp_bundle, pp_sprite, rs_path, notPaths>>

NextPaths ==
    \/ PpSave
    \/ PpLoad

SpecPaths == InitPaths /\ [][NextPaths]_vars

\* C24: the path at which load_png looks for a sprite is the path at which
\* the reconstructor saved it, whatever the bundle and the sprite name, the
\* bundles without a dice name included.
C24_LoadPathIsSavePath ==
    cp_path # <<>> => cp_path = rs_path

\* What holds of the two paths: the file names are the same; the directories
\* are the same when the bundle has a dice name or its file name has no
\* extension.
C24_SamePathButForExtension ==
    cp_path # <<>> =>
        /\ cp_path[2] = rs_path[2]
        /\ \A i \in 1..Len(cp_path[2]) : cp_path[2][i] \notin {"/", "\\", " "}
        /\ (pp_bundle.code # <<>>
            \/ \A i \in 1..Len(pp_bundle.bname) : pp_bundle.bname[i] # ".")
              => cp_path = rs_path

(***************************************************************************)
(* reconstruct_sprite (reconstruct_sprites.py 89-100, 107-166).            *)
(*                                                                         *)
(* The float32 values of the mesh and of m_Rect are kept as exact          *)
(* fractions: positions and the rect in halves of a pixel, UVs in          *)
(* quarters of the atlas; the products and differences the code takes of   *)
(* them are exact in floating point too.  The atlas is the image whose     *)
(* pixel at (x, y) has the colour <<x, y>>, so that the canvas tells where *)
(* each of its pixels came from.                                           *)
(***************************************************************************)
PosDen == 2
UVDen == 4

MaxQuads == 2

Transparent == <<-1, -1>>

\* int(round(n / d)) of Python 3, d > 0: to the nearest integer, a half to
\* the even one.
RoundHalfEven(n, d) ==
    LET q == n \div d
        r == n % d
    IN  IF 2 * r < d THEN q
        ELSE IF 2 * r > d THEN q + 1
        ELSE IF q % 2 = 0 THEN q ELSE q + 1

\* iter_quads: the vertex indices (a, b, c, d) of every whole group of six
\* indices (a, b, c, c, d, a).
IterQuads(indices) ==
    [q \in 1..(Len(indices) \div 6) |->
        LET base == (q - 1) * 6
        IN  <<indices[base + 1], indices[base + 2],
              indices[base + 3], indices[base + 5]>>]

\* Line 126 raises IndexError for a vertex the mesh does not have.
QuadInMesh(verts, ix) ==
    \A k \in 1..4 : ix[k] + 1 \in 1..Len(verts)

\* Lines 126-132, 140-143: the bounds of the four vertices of a quad.
QuadBounds(verts, ix) ==
    LET quad == {verts[ix[k] + 1] : k \in 1..4}
        xs == {v[1] : v \in quad}
        ys == {v[2] : v \in quad}
        us == {v[3] : v \in quad}
        vs == {v[4] : v \in quad}
    IN  [pos_x0 |-> Min(xs), pos_x1 |-> Max(xs),
         pos_y0 |-> Min(ys), pos_y1 |-> Max(ys),
         u0 |-> Min(us), u1 |-> Max(us),
         v0 |-> Min(vs), v1 |-> Max(vs)]

\* Lines 116-117: the size of the canvas.
CanvasSize(rect) ==
    <<RoundHalfEven(rect.width, PosDen), RoundHalfEven(rect.height, PosDen)>>

\* Lines 134-137: the destination of a quad on the canvas.
DstRegion(b, rect, canvas_h) ==
    [l |-> RoundHalfEven(b.pos_x0 - rect.x, PosDen),
     t |-> RoundHalfEven(canvas_h * PosDen - (b.pos_y1 - rect.y), PosDen),
     r |-> RoundHalfEven(b.pos_x1 - rect.x, PosDen),
     b |-> RoundHalfEven(canvas_h * PosDen - (b.pos_y0 - rect.y), PosDen)]

\* The source region without the flip of V.
SrcRegionNoFlip(b, tw, th) ==
    [l |-> RoundHalfEven(b.u0 * tw, UVDen),
     t |-> RoundHalfEven(b.v0 * th, UVDen),
     r |-> RoundHalfEven(b.u1 * tw, UVDen),
     b |-> RoundHalfEven(b.v1 * th, UVDen)]

\* Lines 146-149: the source of a quad in the atlas, V flipped.
SrcRegion(b, tw, th) ==
    [l |-> RoundHalfEven(b.u0 * tw, UVDen),
     t |-> RoundHalfEven((UVDen - b.v1) * th, UVDen),
     r |-> RoundHalfEven(b.u1 * tw, UVDen),
     b |-> RoundHalfEven((UVDen - b.v0) * th, UVDen)]

\* Line 152: the guard against degenerate quads.
Degenerate(src, dst) ==
    dst.r <= dst.l \/ dst.b <= dst.t \/ src.r <= src.l \/ src.b <= src.t

\* atlas_img.crop (155): the pixel of the atlas, transparent outside it.
AtlasPixel(x, y, tw, th) ==
    IF x \in 0..(tw - 1) /\ y \in 0..(th - 1) THEN <<x, y>> ELSE Transparent

\* Lines 155-162: the pixel (i, j) of the tile: of the crop when it has the
\* size of the destination, else of the crop resized with Image.NEAREST,
\* which takes the source pixel under the centre of each pixel.
TilePixel(src, dst, i, j, tw, th) ==
    LET dst_w == dst.r - dst.l
        dst_h == dst.b - dst.t
        src_w == src.r - src.l
        src_h == src.b - src.t
    IN  IF <<src_w, src_h>> = <<dst_w, dst_h>>
        THEN AtlasPixel(src.l + i, src.t + j, tw, th)
        ELSE AtlasPixel(src.l + ((2 * i + 1) * src_w) \div (2 * dst_w),
                        src.t + ((2 * j + 1) * src_h) \div (2 * dst_h),
                        tw, th)

\* canvas.paste(tile, (dst_l, dst_t)) (164): the tile replaces what the
\* canvas had under it; what falls off the canvas is dropped.
Paste(cv, src, dst, tw, th) ==
    [p \in DOMAIN cv |->
        IF p[1] \in dst.l..(dst.r - 1) /\ p[2] \in dst.t..(dst.b - 1)
        THEN TilePixel(src, dst, p[1] - dst.l, p[2] - dst.t, tw, th)
        ELSE cv[p]]

\* The quads of the model, by the bounds of their positions (halves of a
\* pixel) and of their UVs (quarters of the atlas).
QuadPositions ==
    {<<0, 2, 0, 2>>, <<0, 4, 0, 4>>, <<2, 4, 0, 2>>,
     <<0, 1, 0, 2>>, <<-2, 2, 2, 4>>}

QuadUVs ==
    {<<0, 4, 0, 4>>, <<0, 2, 2, 4>>, <<2, 2, 0, 4>>}

QuadShapes == QuadPositions \X QuadUVs

\* The four vertices (x, y, u, v) of a quad, in the order of its corners.
Corner(shape, c) ==
    LET p == shape[1]
        t == shape[2]
    IN  CASE c = 0 -> <<p[1], p[3], t[1], t[3]>>
          [] c = 1 -> <<p[1], p[4], t[1], t[4]>>
          [] c = 2 -> <<p[2], p[4], t[2], t[4]>>
          [] c = 3 -> <<p[2], p[3], t[2], t[3]>>

\* parse_vertices (69-86) of the vertex data of the quads.
VertsOf(shapes) ==
    [i \in 1..(4 * Len(shapes)) |->
        Corner(shapes[((i - 1) \div 4) + 1], (i - 1) % 4)]

\* The index buffer of n quads, two triangles (a, b, c, c, d, a) each, and
\* tail indices after them.
IndicesOf(n, tail) ==
    [i \in 1..(6 * n + tail) |->
        IF i <= 6 * n
        THEN <<0, 1, 2, 2, 3, 0>>[((i - 1) % 6) + 1] + 4 * ((i - 1) \div 6)
        ELSE 0]

\* The meshes: whole, with half a quad of indices left over, or with the
\* last vertex missing from the vertex data.
MeshKinds == {"whole", "tail", "short"}

MeshOf(shapes, kind) ==
    LET n == Len(shapes)
        v == VertsOf(shapes)
    IN  [verts |-> IF kind = "short" /\ n > 0 THEN SubSeq(v, 1, 4 * n - 1)
                   ELSE v,
         indices |-> IndicesOf(n, IF kind = "tail" THEN 3 ELSE 0)]

\* m_Rect, in halves of a pixel.
Rects ==
    {[x |-> 0, y |-> 0, width |-> 2, height |-> 2],
     [x |-> 0, y |-> 0, width |-> 4, height |-> 4],
     [x |-> 2, y |-> -2, width |-> 5, height |-> 3]}

AtlasSizes == {<<2, 2>>, <<10, 10>>}

notQuads == <<transforms, worldVars, groupVars, rectVars, addVars, mainVars,
              pbVars, rbVars, frameVars, selVars, pathVars>>

InitQuads ==
    /\ \E rect \in Rects, n \in 0..MaxQuads, kind \in MeshKinds :
        \E shapes \in [1..n -> QuadShapes] :
            sprite_data = [m_Rect |-> rect,
                           verts |-> MeshOf(shapes, kind).verts,
                           indices |-> MeshOf(shapes, kind).indices]
    /\ atlas_img \in AtlasSizes
    /\ canvas = <<>>
    /\ quad_i = 0
    /\ last_quad = "none"
    /\ rsStatus = "start"
    /\ program = "none"
    /\ opts = [rev |-> FALSE, extra |-> FALSE, blush |-> FALSE]
    /\ bundle_files = <<>>
    /\ path_i = 0
    /\ mainStatus = "idle"
    /\ log = <<>>
    /\ transforms = <<>>
    /\ WorldIdle
    /\ GroupsIdle
    /\ RectsIdle
    /\ AddPartsIdle
    /\ PbIdle
    /\ RbIdle
    /\ FramesIdle
    /\ SelectIdle
    /\ PathsIdle

\* Lines 112-123: the transparent canvas.
RsCanvas ==
    /\ rsStatus = "start"
    /\ LET size == CanvasSize(sprite_data.m_Rect)
       IN  canvas' = [p \in (0..(size[1] - 1)) \X (0..(size[2] - 1)) |->
                        Transparent]
    /\ rsStatus' = "loop"
    /\ UNCHANGED <<sprite_data, atlas_img, quad_i, last_quad, notQuads>>

\* Lines 125-164: one turn of the loop over the quads.
RsQuad ==
    /\ rsStatus = "loop"
    /\ quad_i < Len(IterQuads(sprite_data.indices))
    /\ LET ix == IterQuads(sprite_data.indices)[quad_i + 1]
       IN  /\ QuadInMesh(sprite_data.verts, ix)
           /\ LET b == QuadBounds(sprite_data.verts, ix)
                  canvas_h == CanvasSize(sprite_data.m_Rect)[2]
                  dst == DstRegion(b, sprite_data.m_Rect, canvas_h)
                  src == SrcRegion(b, atlas_img[1], atlas_img[2])
              IN  IF Degenerate(src, dst)
                  THEN /\ canvas' = canvas
                       /\ last_quad' = "skipped"
                  ELSE /\ canvas' = Paste(canvas, src, dst,
                                          atlas_img[1], atlas_img[2])
                       /\ last_quad' = "pasted"
    /\ quad_i' = quad_i + 1
    /\ UNCHANGED <<sprite_data, atlas_img, rsStatus, notQuads>>

\* Line 126: a quad names a vertex the vertex data does not hold.
RsIndexError ==
    /\ rsStatus = "loop"
    /\ quad_i < Len(IterQuads(sprite_data.indices))
    /\ ~QuadInMesh(sprite_data.verts,
                   IterQuads(sprite_data.indices)[quad_i + 1])
    /\ rsStatus' = "raised"
    /\ UNCHANGED <<sprite_data, atlas_img, canvas, quad_i, last_quad,
                   notQuads>>

\* Line 166: the canvas is returned.
RsReturnCanvas ==
    /\ rsStatus = "loop"
    /\ quad_i = Len(IterQuads(sprite_data.indices))
    /\ rsStatus' = "returned"
    /\ UNCHANGED <<sprite_data, atlas_img, canvas, quad_i, last_quad,
                   notQuads>>

NextQuads ==
    \/ RsCanvas
    \/ RsQuad
    \/ RsIndexError
    \/ RsReturnCanvas

SpecQuads == InitQuads /\ [][NextQuads]_vars

\* The regions the quad of the coming turn is to be pasted from and to: the
\* atlas region [min_u*tw, max_u*tw) x [(1-max_v)*th, (1-min_v)*th) and the
\* canvas region [min_x-rect.x, max_x-rect.x) x
\* [canvas_h-(max_y-rect.y), canvas_h-(min_y-rect.y)), rounded.
TurnRegions ==
    LET b == QuadBounds(sprite_data.verts,
                        IterQuads(sprite_data.indices)[quad_i + 1])
        rect == sprite_data.m_Rect
        tw == atlas_img[1]
        th == atlas_img[2]
        canvas_h == RoundHalfEven(rect.height, PosDen)
    IN  [src |-> [l |-> RoundHalfEven(b.u0 * tw, UVDen),
                  r |-> RoundHalfEven(b.u1 * tw, UVDen),
                  t |-> RoundHalfEven(UVDen * th - b.v1 * th, UVDen),
                  b |-> RoundHalfEven(UVDen * th - b.v0 * th, UVDen)],
         dst |-> [l |-> RoundHalfEven(b.pos_x0 - rect.x, PosDen),
                  r |-> RoundHalfEven(b.pos_x1 - rect.x, PosDen),
                  t |-> RoundHalfEven(PosDen * canvas_h - b.pos_y1 + rect.y,
                                      PosDen),
                  b |-> RoundHalfEven(PosDen * canvas_h - b.pos_y0 + rect.y,
                                      PosDen)]]

\* The pixel p of the canvas lies in the region.
InRegion(p, region) ==
    /\ region.l <= p[1] /\ p[1] < region.r
    /\ region.t <= p[2] /\ p[2] < region.b

\* The turn of the loop pasted the source region onto the destination
\* region: outside the destination the canvas is as it was; inside, every
\* pixel comes from the source region, the pixel at the same offset when the
\* two regions have the same size, and always in the same order left to
\* right and top to bottom.
PastedOnto(src, dst) ==
    /\ DOMAIN canvas' = DOMAIN canvas
    /\ \A p \in DOMAIN canvas :
        IF InRegion(p, dst)
        THEN /\ InRegion(canvas'[p], src)
             /\ (src.r - src.l = dst.r - dst.l /\ src.b - src.t = dst.b - dst.t)
                    => canvas'[p] = <<src.l + p[1] - dst.l, src.t + p[2] - dst.t>>
             /\ \A o \in DOMAIN canvas :
                    InRegion(o, dst) /\ o[1] <= p[1] /\ o[2] <= p[2]
                        => /\ canvas'[o][1] <= canvas'[p][1]
                           /\ canvas'[o][2] <= canvas'[p][2]
        ELSE canvas'[p] = canvas[p]

\* The unit square at the rect origin with UVs (0,0)-(1,1), alone in its
\* mesh, on the 10x10 atlas.
UnitSquare == <<<<0, 2, 0, 2>>, <<0, 4, 0, 4>>>>

UnitRect == [x |-> 0, y |-> 0, width |-> 2, height |-> 2]

UnitSquareCase ==
    /\ sprite_data.m_Rect = UnitRect
    /\ sprite_data.verts = VertsOf(<<UnitSquare>>)
    /\ atlas_img = <<10, 10>>

\* C21: the canvas of reconstruct_sprite has the size round(rect.width) x
\* round(rect.height); every turn of the loop either finds a source or a
\* destination region of no width or no height after rounding, and then
\* leaves the canvas as it was and raises nothing, or pastes the source
\* region of the atlas onto the destination region of the canvas; for the
\* unit square on the 10x10 atlas the destination is the whole canvas and the
\* source the whole atlas, the bottom row of the atlas (v = 0) going to the
\* bottom row of the destination.
C21_QuadsPastedRegionToRegion ==
    /\ [](rsStatus \in {"loop", "returned", "raised"} =>
            DOMAIN canvas =
                (0..(RoundHalfEven(sprite_data.m_Rect.width, PosDen) - 1))
                \X (0..(RoundHalfEven(sprite_data.m_Rect.height, PosDen) - 1)))
    /\ [][quad_i' = quad_i + 1 =>
            LET src == TurnRegions.src
                dst == TurnRegions.dst
            IN  /\ rsStatus' = "loop"
                /\ IF src.r - src.l <= 0 \/ src.b - src.t <= 0
                      \/ dst.r - dst.l <= 0 \/ dst.b - dst.t <= 0
                   THEN canvas' = canvas /\ last_quad' = "skipped"
                   ELSE PastedOnto(src, dst) /\ last_quad' = "pasted"
                /\ UnitSquareCase =>
                    /\ src = [l |-> 0, t |-> 0, r |-> 10, b |-> 10]
                    /\ \A p \in DOMAIN canvas : InRegion(p, dst)
                    /\ \A p \in DOMAIN canvas :
                        p[2] = dst.b - 1 => canvas'[p][2] >= 10 \div 2]_vars

\* C21 witness: the unit square on the 10x10 atlas was pasted over the whole
\* 1x1 canvas, a quad of no width after rounding followed it and was
\* skipped, and the canvas was returned with the pixel of the first quad.
C21_Witness ==
    /\ rsStatus = "returned"
    /\ atlas_img = <<10, 10>>
    /\ sprite_data.m_Rect = UnitRect
    /\ sprite_data.verts
        = VertsOf(<<UnitSquare, <<<<0, 1, 0, 2>>, <<0, 4, 0, 4>>>>>>)
    /\ quad_i = 2
    /\ last_quad = "skipped"
    /\ DOMAIN canvas = {<<0, 0>>}
    /\ canvas[<<0, 0>>] = <<5, 5>>

=============================================================================
